---- MODULE Spec2Model ----
(***************************************************************************)
(* Model of the multi-strategy extraction engine of the Job-Matching       *)
(* Website (src/data/extraction).  Strings are TLA+ strings, read          *)
(* character by character with SubSeq; every Python string operation the   *)
(* code uses (lower, strip, split, in, startswith, sorted, re.search) is   *)
(* an operator computed the way Python computes it on ASCII text.          *)
(***************************************************************************)
EXTENDS Integers, Sequences, FiniteSets, TLC

(***************************************************************************)
(* Characters and Python's string primitives                               *)
(***************************************************************************)

\* The printable ASCII characters in code-point order: 32..95 and 97..126
\* (the grave accent, 96, cannot be written in a string and is left out).
AsciiLo ==
  " !\"#$%&'()*+,-./0123456789:;<=>?@ABCDEFGHIJKLMNOPQRSTUVWXYZ[\\]^_"
AsciiHi == "abcdefghijklmnopqrstuvwxyz{|}~"

\* s[i:i+1] with i counted from 1: the empty string outside the string.
Ch(s, i) == IF i >= 1 /\ i <= Len(s) THEN SubSeq(s, i, i) ELSE ""

\* s[a-1:b]: the slice is cut at the end of the string.
Slice(s, a, b) ==
  IF a > Len(s) \/ b < a THEN "" ELSE SubSeq(s, a, IF b > Len(s) THEN Len(s) ELSE b)

Chars ==
  {Ch(AsciiLo, i) : i \in 1..Len(AsciiLo)} \cup {Ch(AsciiHi, i) : i \in 1..Len(AsciiHi)}
    \cup {"\n", "\t"}

\* ord(c): the code point, which is what Python's string comparison uses.
Ord ==
  [c \in Chars |->
     IF c = "\t" THEN 9
     ELSE IF c = "\n" THEN 10
     ELSE IF \E i \in 1..Len(AsciiLo) : Ch(AsciiLo, i) = c
          THEN 31 + (CHOOSE i \in 1..Len(AsciiLo) : Ch(AsciiLo, i) = c)
          ELSE 96 + (CHOOSE i \in 1..Len(AsciiHi) : Ch(AsciiHi, i) = c)]

\* The three classes are empty at "" (no character: outside the string).
IsUpper(c) == c # "" /\ Ord[c] >= 65 /\ Ord[c] <= 90
IsLowerCh(c) == c # "" /\ Ord[c] >= 97 /\ Ord[c] <= 122
IsDigit(c) == c # "" /\ Ord[c] >= 48 /\ Ord[c] <= 57
IsAlnum(c) == IsUpper(c) \/ IsLowerCh(c) \/ IsDigit(c)
\* \w of the re module on ASCII text: letters, digits and underscore.
IsWordCh(c) == IsAlnum(c) \/ c = "_"
\* \s of the re module and the whitespace of str.split()/str.strip().
IsSpace(c) == c \in {" ", "\n", "\t"}

LowerCh == [c \in Chars |-> IF IsUpper(c) THEN Ch(AsciiHi, Ord[c] - 64) ELSE c]

\* str.lower(), character by character (the string is halved at each step
\* to keep the evaluation shallow).
RECURSIVE Lower(_)
Lower(s) ==
  IF s = "" THEN ""
  ELSE IF Len(s) = 1 THEN LowerCh[s]
  ELSE Lower(SubSeq(s, 1, Len(s) \div 2)) \o Lower(SubSeq(s, Len(s) \div 2 + 1, Len(s)))

\* True when no character of s is an uppercase letter (s == s.lower()).
IsLowerStr(s) == \A i \in 1..Len(s) : ~IsUpper(Ch(s, i))

\* sub in s
Contains(s, sub) ==
  \E i \in 1..(Len(s) - Len(sub) + 1) : SubSeq(s, i, i + Len(sub) - 1) = sub

\* s.startswith(p), s.endswith(p)
StartsWith(s, p) == Len(p) <= Len(s) /\ SubSeq(s, 1, Len(p)) = p
EndsWith(s, p) == Len(p) <= Len(s) /\ SubSeq(s, Len(s) - Len(p) + 1, Len(s)) = p

\* s.lstrip(), s.rstrip(), s.strip()
RECURSIVE LStrip(_)
LStrip(s) ==
  IF s # "" /\ IsSpace(Ch(s, 1)) THEN LStrip(SubSeq(s, 2, Len(s))) ELSE s
RECURSIVE RStrip(_)
RStrip(s) ==
  IF s # "" /\ IsSpace(Ch(s, Len(s))) THEN RStrip(SubSeq(s, 1, Len(s) - 1)) ELSE s
Strip(s) == RStrip(LStrip(s))

\* The k-th smallest element of a set of integers.
Nth(P, k) == CHOOSE p \in P : Cardinality({q \in P : q < p}) = k - 1

\* s.split(): the maximal runs of non-whitespace characters, in order.
Split(s) ==
  LET starts == {i \in 1..Len(s) : ~IsSpace(Ch(s, i)) /\ (i = 1 \/ IsSpace(Ch(s, i - 1)))}
      ends == {i \in 1..Len(s) : ~IsSpace(Ch(s, i)) /\ (i = Len(s) \/ IsSpace(Ch(s, i + 1)))}
  IN  [k \in 1..Cardinality(starts) |-> SubSeq(s, Nth(starts, k), Nth(ends, k))]

\* set(s.split())
WordSet(s) == {Split(s)[i] : i \in 1..Len(Split(s))}

\* a < b for Python strings: lexicographic by code point.
RECURSIVE StrLess(_, _)
StrLess(a, b) ==
  IF b = "" THEN FALSE
  ELSE IF a = "" THEN TRUE
  ELSE IF Ch(a, 1) = Ch(b, 1) THEN StrLess(SubSeq(a, 2, Len(a)), SubSeq(b, 2, Len(b)))
  ELSE Ord[Ch(a, 1)] < Ord[Ch(b, 1)]

\* sorted(S) for a set of strings S.
RECURSIVE Sorted(_)
Sorted(S) ==
  IF S = {} THEN <<>>
  ELSE LET m == CHOOSE x \in S : \A y \in S : y = x \/ StrLess(x, y)
       IN  <<m>> \o Sorted(S \ {m})

Range(q) == {q[i] : i \in 1..Len(q)}

\* sequences over S of length at most n
RECURSIVE SeqsUpTo(_, _)
SeqsUpTo(S, n) ==
  IF n = 0 THEN {<<>>}
  ELSE LET shorter == SeqsUpTo(S, n - 1)
       IN  shorter \cup {Append(q, x) : q \in {r \in shorter : Len(r) = n - 1}, x \in S}

(***************************************************************************)
(* State                                                                   *)
(***************************************************************************)

VARIABLES
  synonyms,        \* Deduplicator.synonyms: the entries of the synonym file in file order
  blacklist,       \* Validator.blacklist: the flattened, lowercased blacklist
  skills_db,       \* the flattened, lowercased vocabulary, as RegexMatcher.skills_db,
                   \* SectionParser.tech_skills, NERExtractor.tech_skills and
                   \* EnhancedSkillsExtractor.all_tech_skills hold it
  major_taxonomy,  \* EnhancedEducationExtractor.major_taxonomy: the lowercased majors
  files,           \* the reference files present in the resources directory
  built,           \* per class, how the last construction of an instance ended
  llm_pipe,        \* EnhancedEducationExtractor.llm_pipe: "None" until the language
                   \* model was loaded, "loaded" after
  embedding_model, \* EmbeddingService._model, shared by every instance: "None" until
                   \* the first load, then "loaded", or "False" after a failed load
  use_semantic,    \* SkillScorer.use_semantic
  threads,         \* per thread, the call it is making on a lazily loaded capability
  call             \* the last call made on the engine: its operation, arguments and result

vars ==
  <<synonyms, blacklist, skills_db, major_taxonomy, files, built, llm_pipe,
    embedding_model, use_semantic, threads, call>>

\* Everything but the record of the last call.
engine ==
  <<synonyms, blacklist, skills_db, major_taxonomy, files, built, llm_pipe,
    embedding_model, use_semantic, threads>>

\* The reference tables and the construction record.
tables == <<synonyms, blacklist, skills_db, major_taxonomy, files, built>>

\* The state of the matching services (src/jobs/services).
services == <<embedding_model, use_semantic, threads>>

\* No embedding was asked for yet, the scorer is as constructed, and no
\* thread is making a call.
ServicesUnused ==
  /\ embedding_model = "None"
  /\ use_semantic = TRUE
  /\ threads = <<>>

\* config.py: TECHNICAL_SKILLS_FILE, MAJOR_TAXONOMY_FILE, BLACKLIST_FILE, SYNONYMS_FILE
TECHNICAL_SKILLS_FILE == "technical_skills.json"
MAJOR_TAXONOMY_FILE == "major_taxonomy.json"
BLACKLIST_FILE == "blacklist.json"
SYNONYMS_FILE == "skill_synonyms.json"

ReferenceFiles == {TECHNICAL_SKILLS_FILE, MAJOR_TAXONOMY_FILE, BLACKLIST_FILE, SYNONYMS_FILE}

\* The classes of the extraction engine that are constructed.
Components ==
  {"RegexMatcher", "SectionParser", "KeyBERTExtractor", "NERExtractor", "Normalizer",
   "Deduplicator", "Validator", "EnhancedSkillsExtractor", "EnhancedEducationExtractor"}

\* Every component constructed, with every reference file present.
AllBuilt ==
  /\ files = ReferenceFiles
  /\ built = [c \in Components |-> "ok"]

NoCall == [op |-> "none"]

(***************************************************************************)
(* Deduplicator (postprocessing/deduplicator.py)                           *)
(***************************************************************************)

\* One entry of the synonym file: "main term": [alternates].
Entry(m, a) == [main |-> m, alts |-> a]

\* [syn.lower() for syn in synonyms]
LowerAll(q) == [i \in 1..Len(q) |-> Lower(q[i])]

\* The test of one loop iteration of _merge_synonyms: the skill is the
\* lowercased main term or one of the lowercased alternates.
EntryMatches(e, skill) ==
  skill = Lower(e.main) \/ skill \in Range(LowerAll(e.alts))

\* The inner loop of _merge_synonyms: the entries are tried in dictionary
\* order and the first one that matches decides (break); 0 stands for None.
FirstMatch(syn, skill) ==
  IF \E i \in 1..Len(syn) : EntryMatches(syn[i], skill)
  THEN CHOOSE i \in 1..Len(syn) :
         /\ EntryMatches(syn[i], skill)
         /\ \A j \in 1..(i - 1) : ~EntryMatches(syn[j], skill)
  ELSE 0

\* A mutant of Canonical: the main term is used as written in the file.
CanonicalNoLower(syn, skill) ==
  IF FirstMatch(syn, skill) = 0 THEN "" ELSE syn[FirstMatch(syn, skill)].main

\* canonical after the inner loop; "" stands for None (both are falsy).
Canonical(syn, skill) ==
  IF FirstMatch(syn, skill) = 0 THEN "" ELSE Lower(syn[FirstMatch(syn, skill)].main)

\* _merge_synonyms: `if canonical:` keeps the skill when canonical is None
\* or the empty string.
MergeSynonyms(syn, skills) ==
  {IF Canonical(syn, sk) # "" THEN Canonical(syn, sk) ELSE sk : sk \in skills}

\* A mutant of SortByLenDesc: ascending (reverse=True forgotten).
RECURSIVE SortByLenAsc(_)
SortByLenAsc(S) ==
  IF S = {} THEN <<>>
  ELSE LET m == CHOOSE x \in S :
                  \A y \in S : y = x \/ Len(x) < Len(y) \/ (Len(x) = Len(y) /\ StrLess(x, y))
       IN  <<m>> \o SortByLenAsc(S \ {m})

\* sorted(skills, key=len, reverse=True).  The order of strings of equal
\* length is the iteration order of a Python set; it is fixed here to the
\* alphabetical one, and the result of _remove_substrings does not depend
\* on it (two different strings of equal length never contain each other).
RECURSIVE SortByLenDesc(_)
SortByLenDesc(S) ==
  IF S = {} THEN <<>>
  ELSE LET m == CHOOSE x \in S :
                  \A y \in S : y = x \/ Len(x) > Len(y) \/ (Len(x) = Len(y) /\ StrLess(x, y))
       IN  <<m>> \o SortByLenDesc(S \ {m})

\* The test of the inner loop of _remove_substrings.
IsSubstringOf(skill, longer) ==
  /\ Contains(longer, skill)
  /\ skill # longer
  /\ WordSet(skill) \subseteq WordSet(longer)

\* _remove_substrings: entry i is kept unless the test holds against one of
\* sorted_skills[:i].
RemoveSubstrings(skills) ==
  LET sorted_skills == SortByLenDesc(skills)
  IN  {sorted_skills[i] : i \in {k \in 1..Len(sorted_skills) :
         ~\E j \in 1..(k - 1) : IsSubstringOf(sorted_skills[k], sorted_skills[j])}}

\* deduplicate(skills), skills a list: [] for an empty list, otherwise the
\* three passes and the final sort.
DeduplicateList(syn, skills) ==
  IF skills = <<>> THEN <<>>
  ELSE Sorted(RemoveSubstrings(MergeSynonyms(syn, {Lower(skills[i]) : i \in 1..Len(skills)})))

\* --- inputs ------------------------------------------------------------

\* The longest skill list handed to deduplicate.
MaxSkills == 2
\* The most entries of a synonym file.
MaxEntries == 2

DedupTerms ==
  {"python", "python programming", "sales", "sales manager", "salesforce",
   "ms office", "Microsoft Office", "office suite",
   "data analysis", "data science analysis"}

SynTerms == {"ms office", "Microsoft Office", "office suite"}

EntryPool == {Entry(p[1], <<p[2]>>) : p \in {t \in SynTerms \X SynTerms : t[1] # t[2]}}

\* Every synonym file with at most MaxEntries entries over EntryPool; the
\* keys of a JSON object are distinct.
SynonymMaps ==
  {q \in SeqsUpTo(EntryPool, MaxEntries) :
     \A i, j \in 1..Len(q) : i # j => q[i].main # q[j].main}

SkillLists == SeqsUpTo(DedupTerms, MaxSkills)

InitDedup ==
  /\ synonyms \in SynonymMaps
  /\ blacklist = {}
  /\ skills_db = {}
  /\ major_taxonomy = <<>>
  /\ llm_pipe = "None"
  /\ ServicesUnused
  /\ AllBuilt
  /\ call = NoCall

\* deduplicator.deduplicate(skills) on a list the caller chose.  The
\* deduplicator keeps no state between calls, so a behaviour is one call,
\* possibly followed by a call on its result.
Deduplicate(skills) ==
  /\ call = NoCall
  /\ call' = [op |-> "deduplicate", skills |-> skills,
              ret |-> DeduplicateList(synonyms, skills), again |-> FALSE]
  /\ UNCHANGED engine

\* deduplicator.deduplicate(r) on the list r the previous call returned.
DeduplicateAgain ==
  /\ call.op = "deduplicate"
  /\ ~call.again
  /\ call' = [op |-> "deduplicate", skills |-> call.ret,
              ret |-> DeduplicateList(synonyms, call.ret), again |-> TRUE]
  /\ UNCHANGED engine

NextDedup ==
  \/ \E skills \in SkillLists : Deduplicate(skills)
  \/ DeduplicateAgain

SpecDedup == InitDedup /\ [][NextDedup]_vars

(***************************************************************************)
(* Validator (postprocessing/validator.py)                                 *)
(***************************************************************************)

\* EnhancedExtractionConfig.MIN_SKILL_LENGTH, MAX_SKILL_LENGTH
MIN_SKILL_LENGTH == 2
MAX_SKILL_LENGTH == 60

location_words ==
  {"khan", "sangkat", "phum", "boeng", "chbar", "ampov", "chhuk", "nirouth",
   "chamkar", "daun", "penh", "phnom", "location", "academy", "aupp", "liger"}

job_role_indicators ==
  {"supervisor", "manager", "director", "coordinator", "educator", "officer",
   "assistant", "executive"}

single_word_rejects ==
  {"caring", "inclusive", "mental", "emotional", "physical", "psychological",
   "professional", "positive", "negative", "preparing", "scheduling",
   "requirement", "etc..", "including", "determination", "optimism",
   "stewardship", "ingenuity", "responsibility", "from", "go", "able"}

generic_single == {"and", "or", "the", "for", "with", "from", "into", "go"}

\* str.isdigit() on ASCII text: non-empty and all digits.
IsDigitStr(s) == s # "" /\ \A i \in 1..Len(s) : IsDigit(Ch(s, i))

\* A mutant of BlacklistedPhraseIn: the length guard is off by one (>= 5).
BlacklistedPhraseInGe5(bl, skill_lower) ==
  \E blacklisted \in bl : Contains(skill_lower, blacklisted) /\ Len(blacklisted) >= 5

\* The loop `for blacklisted in self.blacklist` of _is_valid_skill.
BlacklistedPhraseIn(bl, skill_lower) ==
  \E blacklisted \in bl : Contains(skill_lower, blacklisted) /\ Len(blacklisted) > 5

\* _is_valid_skill: the checks in the order of the code, each an early
\* `return False`; the value is the number of the first check that rejects,
\* or 0 when the end of the function (`return True`) is reached.
FirstRejection(bl, skill) ==
  LET skill_lower == Strip(Lower(skill))
      word_count == Len(Split(skill_lower))
  IN  IF Len(skill_lower) < MIN_SKILL_LENGTH THEN 1
      ELSE IF Len(skill_lower) > MAX_SKILL_LENGTH THEN 2
      ELSE IF skill_lower \in bl THEN 3
      ELSE IF BlacklistedPhraseIn(bl, skill_lower) THEN 4
      ELSE IF IsDigitStr(skill_lower) THEN 5
      ELSE IF Contains(skill_lower, "@") \/ Contains(skill_lower, ".com")
                \/ Contains(skill_lower, ".net") THEN 6
      ELSE IF \E pre \in {"and ", "or ", "the ", "a ", "an "} : StartsWith(skill_lower, pre)
           THEN 7
      ELSE IF \E suf \in {".", "!", "?", ","} : EndsWith(skill_lower, suf) THEN 8
      ELSE IF Contains(skill_lower, "no.") \/ Contains(skill_lower, "no ") THEN 9
      ELSE IF \E loc_word \in location_words : Contains(skill_lower, loc_word) THEN 10
      ELSE IF \E role \in job_role_indicators : EndsWith(skill_lower, role) THEN 11
      ELSE IF skill_lower \in single_word_rejects THEN 12
      ELSE IF Contains(skill_lower, "  ") THEN 13
      ELSE IF word_count > 5 THEN 14
      ELSE IF Contains(skill_lower, " and ") /\ word_count > 2 THEN 15
      ELSE IF word_count = 1 /\ Len(skill_lower) < 5 /\ skill_lower \in generic_single THEN 16
      ELSE 0

IsValidSkill(bl, skill) == FirstRejection(bl, skill) = 0

\* validate(skills) on the sorted list the Normalizer returns: the valid
\* entries, in order.
RECURSIVE Validate(_, _)
Validate(bl, skills) ==
  IF skills = <<>> THEN <<>>
  ELSE (IF IsValidSkill(bl, Head(skills)) THEN <<Head(skills)>> ELSE <<>>)
         \o Validate(bl, Tail(skills))

\* --- inputs ------------------------------------------------------------

\* blacklist.json, flattened and lowercased by _load_blacklist.
Blacklists ==
  {{}, {"skill"}, {"skills", "team"}, {"python", "office suite", "good communication"}}

Repeat4(s) == s \o s \o s \o s

ValidatorInputs ==
  {"python", " Python ", "khan sangkat phum", "123", "excellent.", "c", "c++", "sql",
   "skill", "soft skill", "soft skills", "team", "teamwork", "office suite", "ms office suite",
   "good communication", "very good communication skills",
   Repeat4("data analysis "), Repeat4("data analysis ") \o "python",
   "data and analysis", "research and development work", "and",
   "12", "1a", "hr@example", "asp.net", "vue.com", ".net",
   "and python", "or sql", "the web", "a team", "an api", "android",
   "sql!", "sql?", "sql,", "node.js", "no. 12", "no experience", "nosql", "piano",
   "phnom penh", "penhold", "academy", "sales manager", "sales director", "managers",
   "executive", "caring", "from", "go", "golang", "able", "etc..",
   "data  analysis", "a b c d e", "a1 b c d e f", "one two three four five six",
   "into", "with", "for", "fork", "Location", "Sales Officer", "MANAGER"}

InitValidator ==
  /\ synonyms = <<>>
  /\ blacklist \in Blacklists
  /\ skills_db = {}
  /\ major_taxonomy = <<>>
  /\ llm_pipe = "None"
  /\ ServicesUnused
  /\ AllBuilt
  /\ call = NoCall

\* validator._is_valid_skill(skill)
IsValidSkillCall(skill) ==
  /\ call' = [op |-> "is_valid_skill", skill |-> skill, ret |-> IsValidSkill(blacklist, skill)]
  /\ UNCHANGED engine

NextValidator == \E skill \in ValidatorInputs : IsValidSkillCall(skill)

SpecValidator == InitValidator /\ [][NextValidator]_vars

(***************************************************************************)
(* Known-term matcher (strategies/regex_matcher.py)                        *)
(***************************************************************************)

\* _load_skills_database, first loop: every skill of every category of
\* technical_skills.json, lowercased, in one set.
LoadSkillsDb(file) == {Lower(skill) : skill \in file}

\* re.match(r'^[a-zA-Z0-9]+$', skill): one or more letters and digits up to
\* the end of the string ($ also matches before one final newline).
IsSimpleSkill(skill) ==
  LET core == IF EndsWith(skill, "\n") THEN SubSeq(skill, 1, Len(skill) - 1) ELSE skill
  IN  core # "" /\ \A k \in 1..Len(core) : IsAlnum(Ch(core, k))

\* The characters of [\s,;(] and of [\s,;)] in the pattern of a complex skill.
IsBoundaryBefore(c) == IsSpace(c) \/ c \in {",", ";", "("}
IsBoundaryAfter(c) == IsSpace(c) \/ c \in {",", ";", ")"}

\* pattern.search(text_lower) for the pattern compiled from `skill`:
\*   \b<skill>\b                          for a simple skill,
\*   (?:^|[\s,;(])(<skill>)(?:[\s,;)]|$)   otherwise.
\* i is the position of the first character of the skill in the text.
PatternSearch(skill, text_lower) ==
  \E i \in 1..(Len(text_lower) - Len(skill) + 1) :
    LET j == i + Len(skill) - 1
    IN  /\ SubSeq(text_lower, i, j) = skill
        /\ IF IsSimpleSkill(skill)
           THEN /\ (i = 1 \/ ~IsWordCh(Ch(text_lower, i - 1)))
                /\ (j = Len(text_lower) \/ ~IsWordCh(Ch(text_lower, j + 1)))
           ELSE /\ (i = 1 \/ IsBoundaryBefore(Ch(text_lower, i - 1)))
                /\ (j = Len(text_lower) \/ IsBoundaryAfter(Ch(text_lower, j + 1)))

\* A mutant of RegexExtract: the text is searched as given (text.lower()
\* forgotten).
RegexExtractNoLower(db, text) ==
  IF text = "" THEN <<>>
  ELSE Sorted({skill \in db : PatternSearch(skill, text)})

\* RegexMatcher.extract(text)
RegexExtract(db, text) ==
  IF text = "" THEN <<>>
  ELSE LET text_lower == Lower(text)
       IN  Sorted({skill \in db : PatternSearch(skill, text_lower)})

\* --- inputs ------------------------------------------------------------

\* The skills technical_skills.json may list.
VocabularyPool == {"C++", "SQL", "c", "MS Office"}

\* A term as a text writes it, and the characters around it.
Occurrences == {"C++", "sql", "c", "MS Office"}
Before == {"", " ", "(", ",", ";", ".", "/", "_", "x", "\n"}
After == {"", " ", ")", ",", ";", ".", "!", "/", "_", "x"}

MatcherTexts ==
  {b \o o \o a : b \in Before, o \in Occurrences, a \in After}
    \cup {"", "Experience with C++ and SQL required", "We use C++.", "SQL (MS Office)"}

InitRegex ==
  /\ synonyms = <<>>
  /\ blacklist = {}
  /\ skills_db \in {LoadSkillsDb(file) : file \in SUBSET VocabularyPool}
  /\ major_taxonomy = <<>>
  /\ llm_pipe = "None"
  /\ ServicesUnused
  /\ AllBuilt
  /\ call = NoCall

\* regex_matcher.extract(text)
RegexExtractCall(text) ==
  /\ call' = [op |-> "regex_extract", text |-> text, ret |-> RegexExtract(skills_db, text)]
  /\ UNCHANGED engine

NextRegex == \E text \in MatcherTexts : RegexExtractCall(text)

SpecRegex == InitRegex /\ [][NextRegex]_vars

(***************************************************************************)
(* Text utilities (utils/text_utils.py) and Normalizer                     *)
(***************************************************************************)

\* re.sub(r'\s+', ' ', s) on the characters lo..hi of s: every maximal run
\* of whitespace becomes one space (a whitespace character that follows
\* another one is dropped).
RECURSIVE CollapseWsIn(_, _, _)
CollapseWsIn(s, lo, hi) ==
  IF lo > hi THEN ""
  ELSE IF lo = hi
       THEN (IF ~IsSpace(Ch(s, lo)) THEN Ch(s, lo)
             ELSE IF lo > 1 /\ IsSpace(Ch(s, lo - 1)) THEN "" ELSE " ")
       ELSE CollapseWsIn(s, lo, (lo + hi) \div 2) \o CollapseWsIn(s, (lo + hi) \div 2 + 1, hi)
CollapseWs(s) == CollapseWsIn(s, 1, Len(s))

\* The characters re.sub(r'[^\w\s\-/\.+#&]', '', skill) keeps.
IsSkillCh(c) == IsWordCh(c) \/ IsSpace(c) \/ c \in {"-", "/", ".", "+", "#", "&"}

RECURSIVE KeepSkillChars(_)
KeepSkillChars(s) ==
  IF s = "" THEN ""
  ELSE IF Len(s) = 1 THEN (IF IsSkillCh(s) THEN s ELSE "")
  ELSE KeepSkillChars(SubSeq(s, 1, Len(s) \div 2))
         \o KeepSkillChars(SubSeq(s, Len(s) \div 2 + 1, Len(s)))

\* clean_skill(skill)
CleanSkill(skill) ==
  IF skill = "" THEN "" ELSE Strip(CollapseWs(KeepSkillChars(skill)))

\* normalize_text(text)
NormalizeText(text) ==
  IF text = "" THEN "" ELSE Strip(CollapseWs(Lower(text)))

\* A mutant of Normalize: the lowercasing of normalize_text is left out.
NormalizeNoLower(skills) ==
  Sorted({t \in {Strip(CollapseWs(CleanSkill(sk))) : sk \in skills} : Len(t) >= 2})

\* Normalizer.normalize(skills): the cleaned, normalized skills of at least
\* two characters, as a sorted list without duplicates.
Normalize(skills) ==
  Sorted({t \in {NormalizeText(CleanSkill(sk)) : sk \in skills} : Len(t) >= 2})

\* re.split on single separator characters: the pieces between them, empty
\* pieces included.
SplitOn(s, seps) ==
  LET cuts == {i \in 1..Len(s) : Ch(s, i) \in seps} \cup {0, Len(s) + 1}
  IN  [k \in 1..(Cardinality(cuts) - 1) |-> SubSeq(s, Nth(cuts, k) + 1, Nth(cuts, k + 1) - 1)]

\* [item.strip() for item in pieces if item.strip()]
RECURSIVE StripNonEmpty(_)
StripNonEmpty(pieces) ==
  IF pieces = <<>> THEN <<>>
  ELSE (IF Strip(Head(pieces)) # "" THEN <<Strip(Head(pieces))>> ELSE <<>>)
         \o StripNonEmpty(Tail(pieces))

\* The first position of sub in s, 0 when there is none.
IndexOf(s, sub) ==
  IF Contains(s, sub)
  THEN CHOOSE i \in 1..(Len(s) - Len(sub) + 1) :
         /\ SubSeq(s, i, i + Len(sub) - 1) = sub
         /\ \A k \in 1..(i - 1) : SubSeq(s, k, k + Len(sub) - 1) # sub
  ELSE 0

\* The position after the maximal run of whitespace that starts at i.
SkipWs(s, i) ==
  CHOOSE e \in i..(Len(s) + 1) :
    /\ \A k \in i..(e - 1) : IsSpace(Ch(s, k))
    /\ (e = Len(s) + 1 \/ ~IsSpace(Ch(s, e)))

\* The position after the maximal run of non-newline characters from i ([^\n]*).
SkipLine(s, i) ==
  CHOOSE e \in i..(Len(s) + 1) :
    /\ \A k \in i..(e - 1) : Ch(s, k) # "\n"
    /\ (e = Len(s) + 1 \/ Ch(s, e) = "\n")

\* The position after the maximal run of [\w\s] characters from i.
SkipWordOrSpace(s, i) ==
  CHOOSE e \in i..(Len(s) + 1) :
    /\ \A k \in i..(e - 1) : IsWordCh(Ch(s, k)) \/ IsSpace(Ch(s, k))
    /\ (e = Len(s) + 1 \/ ~(IsWordCh(Ch(s, e)) \/ IsSpace(Ch(s, e))))

\* The lookahead [\w\s]+: at position i: a non-empty run of word and space
\* characters followed by a colon (the next section header).
HeaderAhead(s, i) ==
  LET e == SkipWordOrSpace(s, i)
  IN  e > i /\ e <= Len(s) /\ Ch(s, e) = ":"

\* (?:\n(?![\w\s]+:)[^\n]*)* from position i (just after a line): the end of
\* the captured group.
RECURSIVE SectionEnd(_, _)
SectionEnd(s, i) ==
  IF i <= Len(s) /\ Ch(s, i) = "\n" /\ ~HeaderAhead(s, i + 1)
  THEN SectionEnd(s, SkipLine(s, i + 1))
  ELSE i

\* extract_section(text, [header]): the group of
\*   header\s*:?\s*([^\n]*(?:\n(?![\w\s]+:)[^\n]*)*)
\* at the first occurrence of the header in the lowercased text, "" when the
\* header does not occur.
ExtractSection(text, header) ==
  LET text_lower == Lower(text)
      h == IndexOf(text_lower, header)
      a == SkipWs(text_lower, h + Len(header))
      b == IF a <= Len(text_lower) /\ Ch(text_lower, a) = ":" THEN a + 1 ELSE a
      start == SkipWs(text_lower, b)
      end == SectionEnd(text_lower, SkipLine(text_lower, start))
  IN  IF h = 0 THEN "" ELSE SubSeq(text_lower, start, end - 1)

\* re.sub(r'^[\s\-\*•\d\.]+\s*', '', line): the leading bullet markers.
RECURSIVE StripBullet(_)
StripBullet(line) ==
  IF line # "" /\ (IsSpace(Ch(line, 1)) \/ IsDigit(Ch(line, 1)) \/ Ch(line, 1) \in {"-", "*", "."})
  THEN StripBullet(SubSeq(line, 2, Len(line)))
  ELSE line

\* The loop body of parse_bullet_points for the lines from the first on.
RECURSIVE BulletItems(_)
BulletItems(lines) ==
  IF lines = <<>> THEN <<>>
  ELSE LET line == Strip(StripBullet(Head(lines)))
       IN  (IF line # "" THEN StripNonEmpty(SplitOn(line, {";", ","})) ELSE <<>>)
             \o BulletItems(Tail(lines))

\* parse_bullet_points(text).  re.split(r'[\n\r]+') yields no empty line
\* between two newlines; splitting at every newline yields them, and the
\* loop skips empty lines.
ParseBulletPoints(text) == BulletItems(SplitOn(text, {"\n"}))

common_words == {"the", "and", "or", "for", "with", "in", "to", "of", "a", "an"}
verb_indicators == {"will", "can", "must", "should", "able to", "required to"}

\* is_likely_skill(text)
IsLikelySkill(text) ==
  IF text = "" \/ Len(text) < 2 THEN FALSE
  ELSE IF Len(text) > 50 THEN FALSE
  ELSE IF Cardinality({k \in 1..Len(Split(text)) : Split(text)[k] \in common_words}) > 2
       THEN FALSE
  ELSE IF \E verb \in verb_indicators : Contains(text, verb) THEN FALSE
  ELSE TRUE

\* --- inputs of the Normalizer ------------------------------------------

NormalizerInputs ==
  {"Python", " C++ ", "node_js", "a", "C#", "R&D", "data   science", "Tab\tsep",
   "(SQL)", "!", "", "CI/CD", ".NET", "sql", "x  "}

InitNormalizer ==
  /\ synonyms = <<>>
  /\ blacklist = {}
  /\ skills_db = {}
  /\ major_taxonomy = <<>>
  /\ llm_pipe = "None"
  /\ ServicesUnused
  /\ AllBuilt
  /\ call = NoCall

\* normalizer.normalize(skills)
NormalizeCall(skills) ==
  /\ call = NoCall
  /\ call' = [op |-> "normalize", skills |-> skills, ret |-> Normalize(skills)]
  /\ UNCHANGED engine

NextNormalizer ==
  \E skills \in {s \in SUBSET NormalizerInputs : Cardinality(s) <= MaxSkills} :
    NormalizeCall(skills)

SpecNormalizer == InitNormalizer /\ [][NextNormalizer]_vars

(***************************************************************************)
(* Structured-section parser (strategies/section_parser.py)                *)
(***************************************************************************)

section_headers ==
  <<"skills", "required skills", "technical skills", "key skills", "requirements",
    "required", "qualifications", "required qualifications", "must have",
    "responsibilities", "job requirements", "essential skills", "core skills">>

\* EnhancedExtractionConfig.SECTION_MIN_LENGTH, SECTION_MAX_LENGTH
SECTION_MIN_LENGTH == 2
SECTION_MAX_LENGTH == 60

\* The items SectionParser.extract keeps from the section of one header.
SectionItems(tech_skills, text, header) ==
  LET section_text == ExtractSection(text, header)
      items == IF section_text = "" THEN <<>> ELSE ParseBulletPoints(section_text)
      cleaned == {CleanSkill(items[k]) : k \in 1..Len(items)}
  IN  {item \in cleaned :
         /\ Len(item) >= SECTION_MIN_LENGTH
         /\ Len(item) <= SECTION_MAX_LENGTH
         /\ IsLikelySkill(item)
         /\ (item \in tech_skills \/ (Len(item) <= 30 /\ Len(Split(item)) <= 4))}

\* SectionParser.extract(text)
SectionExtract(tech_skills, text) ==
  IF text = "" THEN <<>>
  ELSE Sorted(UNION {SectionItems(tech_skills, text, section_headers[h]) :
                       h \in 1..Len(section_headers)})

(***************************************************************************)
(* Direct scanner and soft-skill matcher (skills_extractor_v3.py)          *)
(***************************************************************************)

\* The first position q >= from with Ch(s, q) = c, 0 when there is none.
NextChar(s, c, from) ==
  IF \E q \in from..Len(s) : Ch(s, q) = c
  THEN CHOOSE q \in from..Len(s) : Ch(s, q) = c /\ \A k \in from..(q - 1) : Ch(s, k) # c
  ELSE 0

\* \(([^)]{5,200})\) tried at position i: an opening parenthesis, 5 to 200
\* characters other than ')', and the closing parenthesis.
ParenAt(s, i) ==
  /\ Ch(s, i) = "("
  /\ NextChar(s, ")", i + 1) # 0
  /\ NextChar(s, ")", i + 1) - i - 1 >= 5
  /\ NextChar(s, ")", i + 1) - i - 1 <= 200

\* re.findall(paren_pattern, text_lower): the groups of the matches, found
\* left to right without overlap (an attempt inside an earlier match is
\* never made).
ParenMatches(s) ==
  {SubSeq(s, i + 1, NextChar(s, ")", i + 1) - 1) :
     i \in {k \in 1..Len(s) :
              /\ ParenAt(s, k)
              /\ ~\E k0 \in 1..(k - 1) : ParenAt(s, k0) /\ NextChar(s, ")", k0 + 1) > k}}

NoMatch == [ok |-> FALSE, cap |-> "", next |-> 0]

\* The first attempt that succeeded among alternatives tried in order.
FirstOk(tries) ==
  IF \A n \in DOMAIN tries : ~tries[n].ok THEN NoMatch
  ELSE tries[CHOOSE n \in DOMAIN tries : tries[n].ok /\ \A m \in 1..(n - 1) : ~tries[m].ok]

Max(S) == CHOOSE m \in S : \A k \in S : k <= m

\* re.findall over a text, given for each position the attempt to match
\* there: the groups of the matches found left to right, each attempt
\* starting where the previous match ended.
RECURSIVE FindAll(_, _)
FindAll(attempts, from) ==
  IF \A i \in from..Len(attempts) : ~attempts[i].ok THEN {}
  ELSE LET i == CHOOSE k \in from..Len(attempts) :
                  attempts[k].ok /\ \A k0 \in from..(k - 1) : ~attempts[k0].ok
       IN  {attempts[i].cap} \cup FindAll(attempts, attempts[i].next)

\* The alternatives of use_pattern, in the order of the pattern.
use_triggers ==
  <<"use", "using", "able to use", "proficiency in", "knowledge of", "experience with">>

\* [a-z0-9\s,&+#.-]
IsUseCh(c) == IsLowerCh(c) \/ IsDigit(c) \/ IsSpace(c) \/ c \in {",", "&", "+", "#", ".", "-"}

\* The position after the maximal run of [a-z0-9\s,&+#.-] from i.
SkipUse(s, i) ==
  CHOOSE e \in i..(Len(s) + 1) :
    /\ \A k \in i..(e - 1) : IsUseCh(Ch(s, k))
    /\ (e = Len(s) + 1 \/ ~IsUseCh(Ch(s, e)))

\* (?:\.|,|;|$) at position q; $ is the end of the text or the position
\* before one final newline.
UseTerminator(s, q) ==
  \/ q <= Len(s) /\ Ch(s, q) \in {".", ",", ";"}
  \/ q = Len(s) + 1
  \/ q = Len(s) /\ Ch(s, q) = "\n"

\* The ways \s+([a-z0-9\s,&+#.-]{5,100})(?:\.|,|;|$) matches from position
\* a, as pairs <<p, q>>: the group starts at p, after at least one
\* whitespace character, and ends before q, where the terminator is.  w is
\* the end of the whitespace run from a and e the end of the run of class
\* characters from w (whitespace is in the class).
UseGroups(s, a, w, e) ==
  {pq \in ((a + 1)..w) \X ((a + 6)..e) :
     /\ pq[2] - pq[1] >= 5
     /\ pq[2] - pq[1] <= 100
     /\ UseTerminator(s, pq[2])}

\* The match the engine finds among them: \s+ is greedy and gives whitespace
\* back only when the rest fails; then the group is greedy.
UseGreedy(s, groups) ==
  IF groups = {} THEN NoMatch
  ELSE LET pq == CHOOSE g \in groups :
                   \A o \in groups : o[1] < g[1] \/ (o[1] = g[1] /\ o[2] <= g[2])
       IN  [ok |-> TRUE, cap |-> SubSeq(s, pq[1], pq[2] - 1),
            next |-> IF pq[2] <= Len(s) /\ Ch(s, pq[2]) \in {".", ",", ";"}
                     THEN pq[2] + 1 ELSE pq[2]]

\* The rest of use_pattern after an alternative that ended before a.
UseRest(s, a, w) == UseGreedy(s, UseGroups(s, a, w, SkipUse(s, w)))

\* use_pattern tried at position i with alternative t.
UseTry(s, i, t) ==
  IF Slice(s, i, i + Len(t) - 1) # t THEN NoMatch
  ELSE UseRest(s, i + Len(t), SkipWs(s, i + Len(t)))

\* use_pattern tried at position i: the first alternative that succeeds.
UseAt(s, i) == FirstOk([n \in 1..Len(use_triggers) |-> UseTry(s, i, use_triggers[n])])

\* re.findall(use_pattern, text_lower)
UseMatches(s) == FindAll([i \in 1..Len(s) |-> UseAt(s, i)], 1)

\* [,;&]|\s+and\s+ tried at position i, with a the end of the whitespace run
\* from i: the position after the separator, 0 when it does not match there.
ItemSeparatorEnd(s, i, a) ==
  IF Ch(s, i) \in {",", ";", "&"} THEN i + 1
  ELSE IF IsSpace(Ch(s, i)) /\ Slice(s, a, a + 2) = "and" /\ IsSpace(Ch(s, a + 3))
       THEN SkipWs(s, a + 3)
       ELSE 0

\* The pieces between the separators, from the piece that starts at `from`;
\* sep_end[i] is the end of the separator that starts at i, or 0.
RECURSIVE PiecesFrom(_, _, _)
PiecesFrom(s, sep_end, from) ==
  IF \A i \in from..Len(s) : sep_end[i] = 0 THEN {Slice(s, from, Len(s))}
  ELSE LET i == CHOOSE k \in from..Len(s) :
                  sep_end[k] # 0 /\ \A k0 \in from..(k - 1) : sep_end[k0] = 0
       IN  {Slice(s, from, i - 1)} \cup PiecesFrom(s, sep_end, sep_end[i])

\* re.split(r'[,;&]|\s+and\s+', match): the pieces.
SplitItems(s) ==
  PiecesFrom(s, [i \in 1..Len(s) |-> ItemSeparatorEnd(s, i, SkipWs(s, i))], 1)

\* [a-z0-9\s+#.-]
IsBulletCh(c) == IsLowerCh(c) \/ IsDigit(c) \/ IsSpace(c) \/ c \in {"+", "#", ".", "-"}

SkipBullet(s, i) ==
  CHOOSE e \in i..(Len(s) + 1) :
    /\ \A k \in i..(e - 1) : IsBulletCh(Ch(s, k))
    /\ (e = Len(s) + 1 \/ ~IsBulletCh(Ch(s, e)))

\* The ways \s*([a-z0-9\s+#.-]{2,40})(?:$|[\r\n]) matches after a bullet
\* character at position b, as pairs <<p, q>>: the group starts at p and
\* ends before q, the end of a line ($ under re.MULTILINE).  w is the end of
\* the whitespace run from b + 1 and e the end of the run of class characters
\* from w.
BulletGroups(s, b, w, e) ==
  {pq \in ((b + 1)..w) \X ((b + 3)..e) :
     /\ pq[2] - pq[1] >= 2
     /\ pq[2] - pq[1] <= 40
     /\ (pq[2] = Len(s) + 1 \/ Ch(s, pq[2]) = "\n")}

\* The match the engine finds among them: \s* greedy, then the group greedy;
\* $ consumes nothing.
BulletGreedy(s, groups) ==
  IF groups = {} THEN NoMatch
  ELSE LET pq == CHOOSE g \in groups :
                   \A o \in groups : o[1] < g[1] \/ (o[1] = g[1] /\ o[2] <= g[2])
       IN  [ok |-> TRUE, cap |-> SubSeq(s, pq[1], pq[2] - 1), next |-> pq[2]]

\* The rest of bullet_pattern after the bullet character at position b.
BulletRest(s, b, w) == BulletGreedy(s, BulletGroups(s, b, w, SkipBullet(s, w)))

\* The rest of bullet_pattern after (?:^|[\r\n]), with the bullet character
\* at position b: one of [\s\-\*] (the three other characters of the class
\* are outside ASCII).
BulletTry(s, b) ==
  IF IsSpace(Ch(s, b)) \/ Ch(s, b) \in {"-", "*"}
  THEN BulletRest(s, b, SkipWs(s, b + 1))
  ELSE NoMatch

\* bullet_pattern tried at position i: ^ (the start of a line) first, then a
\* newline character.
BulletAt(s, i) ==
  FirstOk(<<IF i = 1 \/ Ch(s, i - 1) = "\n" THEN BulletTry(s, i) ELSE NoMatch,
            IF Ch(s, i) = "\n" THEN BulletTry(s, i + 1) ELSE NoMatch>>)

\* re.findall(bullet_pattern, text_lower, re.MULTILINE)
BulletMatches(s) == FindAll([i \in 1..Len(s) |-> BulletAt(s, i)], 1)

SkipLetters(s, i) ==
  CHOOSE e \in i..(Len(s) + 1) :
    /\ \A k \in i..(e - 1) : IsLowerCh(Ch(s, k))
    /\ (e = Len(s) + 1 \/ ~IsLowerCh(Ch(s, e)))

SkipDigits(s, i) ==
  CHOOSE e \in i..(Len(s) + 1) :
    /\ \A k \in i..(e - 1) : IsDigit(Ch(s, k))
    /\ (e = Len(s) + 1 \/ ~IsDigit(Ch(s, e)))

\* One alternative of (?:\d+|365|office|suite) followed by \b, tried at
\* position w, where the alternative would end before d: d when it matches,
\* else 0.  \d+ takes the whole run of digits; "365" can only match where
\* \d+ already did.
QualifierTry(s, w, d, matches) ==
  IF matches /\ d > w /\ ~IsWordCh(Ch(s, d)) THEN d ELSE 0

\* The end of (?:\d+|365|office|suite)\b when tried at position w, 0 when
\* it does not match.
QualifierEnd(s, w) ==
  Max({QualifierTry(s, w, SkipDigits(s, w), TRUE),
       QualifierTry(s, w, w + 6, Slice(s, w, w + 5) = "office"),
       QualifierTry(s, w, w + 5, Slice(s, w, w + 4) = "suite")})

\* The rest of version_pattern after the letters that end before e, with w
\* the end of the whitespace run from e and q the end of the qualifier.
VersionRest(s, i, e, w, q) ==
  IF w > e /\ q # 0 THEN [ok |-> TRUE, cap |-> SubSeq(s, i, e - 1), next |-> q]
  ELSE NoMatch

\* version_pattern \b([a-z]+)\s+(?:\d+|365|office|suite)\b tried at i.
VersionAt(s, i) ==
  IF IsLowerCh(Ch(s, i)) /\ ~IsWordCh(Ch(s, i - 1))
  THEN VersionRest(s, i, SkipLetters(s, i), SkipWs(s, SkipLetters(s, i)),
                   QualifierEnd(s, SkipWs(s, SkipLetters(s, i))))
  ELSE NoMatch

\* re.findall(version_pattern, text_lower)
VersionMatches(s) == FindAll([i \in 1..Len(s) |-> VersionAt(s, i)], 1)

\* _direct_skill_scan(text): the four sweeps; every candidate is kept only if
\* it is a vocabulary term.
DirectSkillScan(all_tech_skills, text) ==
  Sorted({item \in UNION {{Strip(item) : item \in Range(SplitOn(m, {",", ";", "&"}))} :
                            m \in ParenMatches(Lower(text))} :
            item \in all_tech_skills}
           \cup {item \in UNION {{Strip(item) : item \in SplitItems(m)} :
                                   m \in UseMatches(Lower(text))} :
                   item \in all_tech_skills /\ Len(item) > 2}
           \cup {m \in {Strip(m) : m \in BulletMatches(Lower(text))} : m \in all_tech_skills}
           \cup {m \in VersionMatches(Lower(text)) : m \in all_tech_skills})

\* EnhancedExtractionConfig.SOFT_SKILLS
SOFT_SKILLS ==
  {"communication", "leadership", "teamwork", "problem solving", "time management",
   "critical thinking", "creativity", "adaptability", "work ethic",
   "interpersonal skills", "presentation skills", "analytical skills",
   "organizational skills"}

\* _extract_soft_skills(text)
ExtractSoftSkills(text) == Sorted({skill \in SOFT_SKILLS : Contains(Lower(text), skill)})

(***************************************************************************)
(* Semantic keyphrase strategy (strategies/keybert_extractor.py)           *)
(***************************************************************************)

\* EnhancedExtractionConfig.KEYBERT_THRESHOLD, in hundredths (0.38).
KEYBERT_THRESHOLD == 38

verbose_patterns ==
  {"good", "excellent", "strong", "knowledge", "experience", "skills",
   "ability", "able", "must", "should", "required", "preferred",
   "working", "work with", "years experience"}

\* _is_verbose_phrase(keyword)
IsVerbosePhrase(keyword) ==
  LET word_count == Len(Split(keyword))
      keyword_lower == Lower(keyword)
  IN  IF Len(keyword) > 40 THEN TRUE
      ELSE IF word_count > 4 THEN TRUE
      ELSE IF \E pattern \in verbose_patterns : Contains(keyword_lower, pattern)
        THEN ~(/\ word_count <= 2
               /\ ~\E start \in {"good", "excellent", "strong"} : StartsWith(keyword_lower, start))
      ELSE FALSE

\* The body of the loop of KeyBERTExtractor.extract for one (keyword, score)
\* pair: TRUE when the keyword is added.  k.score is in hundredths; k.pos_ok
\* is the result of _filter_by_pos, which is TRUE when spaCy is not loaded
\* and otherwise depends on the tags the tagger gives.
KeywordKept(k) ==
  LET keyword == CleanSkill(k.keyword)
  IN  /\ k.score >= KEYBERT_THRESHOLD
      /\ Len(keyword) >= 2
      /\ Len(keyword) <= 40
      /\ ~IsVerbosePhrase(keyword)
      /\ k.pos_ok
      /\ IsLikelySkill(keyword)

\* KeyBERTExtractor.extract(text), given what the keyphrase model does when
\* it is invoked: kb.status = "fail" when extract_keywords raises (the
\* except clause returns []), else kb.keywords is the list it returns.
KeyBERTExtract(text, kb) ==
  IF text = "" \/ kb.status = "fail" THEN <<>>
  ELSE Sorted({Lower(CleanSkill(kb.keywords[n].keyword)) :
                 n \in {m \in 1..Len(kb.keywords) : KeywordKept(kb.keywords[m])}})

(***************************************************************************)
(* Named-entity strategy (strategies/ner_extractor.py)                     *)
(***************************************************************************)

\* EnhancedExtractionConfig.NER_LABELS
NER_LABELS == {"PRODUCT", "ORG", "GPE"}

\* The body of the loop of NERExtractor.extract for one entity: TRUE when the
\* entity is added.
EntityKept(tech_skills, ent) ==
  LET entity_lower == Lower(CleanSkill(ent.text))
  IN  /\ ent.label \in NER_LABELS
      /\ \/ entity_lower \in tech_skills
         \/ /\ Len(entity_lower) >= 2
            /\ Len(entity_lower) <= 30
            /\ \E n \in 1..Len(ent.text) : IsUpper(Ch(ent.text, n))

\* NERExtractor.extract(text), given the state of the spaCy pipeline:
\* ner.status = "unavailable" when self.nlp is None, "fail" when the pipeline
\* raises (the except clause returns []), else ner.ents is doc.ents.
NERExtract(tech_skills, text, ner) ==
  IF text = "" \/ ner.status # "ok" THEN <<>>
  ELSE Sorted({Lower(CleanSkill(ner.ents[n].text)) :
                 n \in {m \in 1..Len(ner.ents) : EntityKept(tech_skills, ner.ents[m])}})

(***************************************************************************)
(* EnhancedSkillsExtractor (skills_extractor_v3.py)                        *)
(***************************************************************************)

\* The keys of `results` in the order extract fills them.
strategies == <<"regex", "section", "keybert", "ner", "direct_scan", "soft_skills">>

\* _aggregate_results: weights
\* The weights with the two most trusted strategies exchanged.
weights_exchanged ==
  [regex |-> 11, direct_scan |-> 12, section |-> 9, keybert |-> 6, ner |-> 5, soft_skills |-> 4]

weights ==
  [regex |-> 12, direct_scan |-> 11, section |-> 9, keybert |-> 6, ner |-> 5, soft_skills |-> 4]

\* How many entries of the list are skill_lower once lowercased.
CountOf(skills, skill_lower) ==
  Cardinality({n \in 1..Len(skills) : Lower(skills[n]) = skill_lower})

\* The score of skill_lower after the first n strategies have been added.
RECURSIVE ScoreUpTo(_, _, _)
ScoreUpTo(results, skill_lower, n) ==
  IF n = 0 THEN 0
  ELSE ScoreUpTo(results, skill_lower, n - 1)
         + weights[strategies[n]] * CountOf(results[strategies[n]], skill_lower)

\* skill_scores at the end of _aggregate_results.
SkillScores(results) ==
  [skill_lower \in UNION {{Lower(results[st][n]) : n \in 1..Len(results[st])} :
                            st \in DOMAIN results}
     |-> ScoreUpTo(results, skill_lower, Len(strategies))]

\* _aggregate_results(results): the keys of skill_scores.  The list holds
\* each key once; its order is the order of first insertion, which the
\* Normalizer discards when it collects the skills in a set.
AggregateResults(results) == DOMAIN SkillScores(results)

\* Steps 1 to 3 of extract: the six strategies.
RunStrategies(db, text, kb, ner) ==
  [regex |-> RegexExtract(db, text),
   section |-> SectionExtract(db, text),
   keybert |-> KeyBERTExtract(text, kb),
   ner |-> NERExtract(db, text, ner),
   direct_scan |-> DirectSkillScan(db, text),
   soft_skills |-> ExtractSoftSkills(text)]

NoResults ==
  [regex |-> <<>>, section |-> <<>>, keybert |-> <<>>, ner |-> <<>>,
   direct_scan |-> <<>>, soft_skills |-> <<>>]

\* Step 5 of extract: normalizer, validator, deduplicator, in this order.
PostProcess(syn, bl, aggregated_skills) ==
  DeduplicateList(syn, Validate(bl, Normalize(aggregated_skills)))

\* --- inputs ------------------------------------------------------------

ExtractVocabularies ==
  {{}, {"C++"}, {"Python", "SQL", "C++", "R Programming", "MS Office", "Excel"}}

ExtractBlacklists == {{}, {"microsoft office", "good communication"}}

ExtractSynonymMaps ==
  {<<>>,
   <<Entry("Microsoft Office", <<"ms office", "office suite">>)>>,
   <<Entry("R", <<"R Programming", "rlang">>), Entry("Microsoft Office", <<"MS Office">>)>>}

ExtractTexts ==
  {"",
   "Experience with C++ and SQL required",
   "Skills: Python, R Programming; MS Office",
   "Requirements:\n- SQL\n- good communication",
   "Tools (Python, SQL & Excel)",
   "Python 3 and MS Office 365",
   "We use C++.",
   "teamwork and leadership",
   "R Programming",
   "knowledge of python and sql\n",
   "core skills: canva, excel",
   "Tableau and Power BI at Google"}

\* Keyphrases the model can return for a text: phrases of the text, with a
\* score in hundredths and the verdict of the part-of-speech filter.
KeywordPool ==
  {[keyword |-> kw, score |-> sc, pos_ok |-> ok] :
     kw \in {"python", "good communication", "power bi", "canva", "knowledge of python"},
     sc \in {30, 55}, ok \in BOOLEAN}

KeyBERTOutcomes(text) ==
  {[status |-> "fail", keywords |-> <<>>], [status |-> "ok", keywords |-> <<>>]}
    \cup {[status |-> "ok", keywords |-> <<k>>] :
            k \in {e \in KeywordPool : Contains(Lower(text), e.keyword)}}

\* Entities the pipeline can recognise in a text: spans of the text.
EntityPool ==
  {[text |-> "Tableau", label |-> "PRODUCT"], [text |-> "Google", label |-> "ORG"],
   [text |-> "Google", label |-> "PERSON"], [text |-> "Power BI", label |-> "PRODUCT"],
   [text |-> "python", label |-> "PRODUCT"], [text |-> "canva", label |-> "ORG"]}

NEROutcomes(text) ==
  {[status |-> "unavailable", ents |-> <<>>], [status |-> "fail", ents |-> <<>>],
   [status |-> "ok", ents |-> <<>>]}
    \cup {[status |-> "ok", ents |-> <<e>>] : e \in {e \in EntityPool : Contains(text, e.text)}}

InitExtract ==
  /\ synonyms \in ExtractSynonymMaps
  /\ blacklist \in ExtractBlacklists
  /\ skills_db \in {LoadSkillsDb(file) : file \in ExtractVocabularies}
  /\ major_taxonomy = <<>>
  /\ llm_pipe = "None"
  /\ ServicesUnused
  /\ AllBuilt
  /\ call = NoCall

\* extractor.extract(text).  kb and ner say what the two external
\* capabilities do if they are invoked during the call; `invoked` records
\* which of them were.  extract leaves the engine as it found it, so a later
\* call meets the same engine: one call is followed from each engine.
Extract(text, kb, ner) ==
  LET results == IF text = "" THEN NoResults ELSE RunStrategies(skills_db, text, kb, ner)
      aggregated_skills == AggregateResults(results)
  IN  /\ call = NoCall
      /\ call' = [op |-> "extract", text |-> text, keybert |-> kb.status, ner |-> ner.status,
                  invoked |-> IF text = "" THEN {}
                              ELSE {"keybert"} \cup (IF ner.status = "unavailable" THEN {} ELSE {"ner"}),
                  results |-> results,
                  skill_scores |-> SkillScores(results),
                  ret |-> IF text = "" THEN <<>>
                          ELSE PostProcess(synonyms, blacklist, aggregated_skills)]
      /\ UNCHANGED engine

NextExtract ==
  \E text \in ExtractTexts :
    \E kb \in KeyBERTOutcomes(text) :
      \E ner \in NEROutcomes(text) : Extract(text, kb, ner)

SpecExtract == InitExtract /\ [][NextExtract]_vars

(***************************************************************************)
(* Regular expressions of the education extractor                          *)
(***************************************************************************)

\* The patterns of config.py and education_extractor_v3.py are written as
\* trees: a literal, a greedy repetition of a character class, an optional
\* part, an alternation, a concatenation, $, \b and a negative lookahead.
Lit(str) == [k |-> "lit", s |-> str]
Rep(class, lo, hi) == [k |-> "rep", c |-> class, lo |-> lo, hi |-> hi]
Plus(class) == [k |-> "rep", c |-> class, lo |-> 1, hi |-> -1]
Star(class) == [k |-> "rep", c |-> class, lo |-> 0, hi |-> -1]
Opt(n) == [k |-> "opt", n |-> n]
Alt(ns) == [k |-> "alt", ns |-> ns]
Cat(ns) == [k |-> "cat", ns |-> ns]
Eol == [k |-> "eol"]
WordB == [k |-> "wordb"]
NotAhead(n) == [k |-> "notahead", n |-> n]

\* The character classes the patterns use: \s, [\s:], \d, [a-z] and
\* [a-z\s&/,-].
InClass(class, c) ==
  CASE class = "\\s" -> IsSpace(c)
    [] class = "\\s:" -> IsSpace(c) \/ c = ":"
    [] class = "\\d" -> IsDigit(c)
    [] class = "a-z" -> IsLowerCh(c)
    [] class = "a-z\\s&/,-" -> IsLowerCh(c) \/ IsSpace(c) \/ c \in {"&", "/", ",", "-"}

\* The number of characters of the class that follow position i, at most
\* left of them.
RECURSIVE RunLen(_, _, _, _)
RunLen(class, s, i, left) ==
  IF left = 0 \/ ~InClass(class, Ch(s, i)) THEN 0 ELSE 1 + RunLen(class, s, i + 1, left - 1)

\* The ends of a greedy repetition that starts at i, whose longest run has
\* n characters and whose shortest has lo: the longest first.
RepEnds(i, n, lo) == IF n < lo THEN <<>> ELSE [j \in 1..(n - lo + 1) |-> i + n - j + 1]

\* The positions where a match of the tree that starts at position i can
\* end, in the order in which the backtracking matcher of Python tries them
\* (a greedy repetition gives its longest run first, an alternation its
\* alternatives from left to right).
RECURSIVE Ends(_, _, _)
RECURSIVE AltEnds(_, _, _)
RECURSIVE CatEnds(_, _, _)
RECURSIVE EndsFromAll(_, _, _)
Ends(re, s, i) ==
  CASE re.k = "lit" -> IF Slice(s, i, i + Len(re.s) - 1) = re.s THEN <<i + Len(re.s)>> ELSE <<>>
    [] re.k = "rep" -> RepEnds(i, RunLen(re.c, s, i, IF re.hi < 0 THEN Len(s) ELSE re.hi), re.lo)
    [] re.k = "opt" -> Ends(re.n, s, i) \o <<i>>
    [] re.k = "alt" -> AltEnds(re.ns, s, i)
    [] re.k = "cat" -> CatEnds(re.ns, s, <<i>>)
    [] re.k = "eol" -> (IF i = Len(s) + 1 \/ (i = Len(s) /\ Ch(s, i) = "\n") THEN <<i>> ELSE <<>>)
    [] re.k = "wordb" -> (IF IsWordCh(Ch(s, i - 1)) # IsWordCh(Ch(s, i)) THEN <<i>> ELSE <<>>)
    [] re.k = "notahead" -> (IF Ends(re.n, s, i) = <<>> THEN <<i>> ELSE <<>>)

AltEnds(ns, s, i) ==
  IF ns = <<>> THEN <<>> ELSE Ends(Head(ns), s, i) \o AltEnds(Tail(ns), s, i)

EndsFromAll(n, s, starts) ==
  IF starts = <<>> THEN <<>>
  ELSE Ends(n, s, Head(starts)) \o EndsFromAll(n, s, Tail(starts))

CatEnds(ns, s, starts) ==
  IF ns = <<>> THEN starts ELSE CatEnds(Tail(ns), s, EndsFromAll(Head(ns), s, starts))

\* re.search(pattern, s)
Search(re, s) == \E i \in 1..(Len(s) + 1) : Ends(re, s, i) # <<>>

\* A pattern with one group is the part before the group, the group and the
\* part after it.  The attempt with the group from a to b - 1, given the
\* ends of the part after it.
PostTry(s, a, b, post_ends) ==
  [ok |-> post_ends # <<>>,
   cap |-> Slice(s, a, b - 1),
   next |-> IF post_ends # <<>> THEN Head(post_ends) ELSE 0]

\* The first end of the group, among its ends in backtracking order, after
\* which the rest of the pattern matches.
GroupFirst(p, s, a, group_ends) ==
  FirstOk([j \in 1..Len(group_ends) |-> PostTry(s, a, group_ends[j], Ends(p.post, s, group_ends[j]))])

\* The first start of the group, among the ends of the part before it, from
\* which the pattern matches.
PreFirst(p, s, pre_ends) ==
  FirstOk([j \in 1..Len(pre_ends) |-> GroupFirst(p, s, pre_ends[j], Ends(p.group, s, pre_ends[j]))])

\* The attempt to match the pattern at position i.
PatternAt(p, s, i) == PreFirst(p, s, Ends(p.pre, s, i))

\* re.findall over a text, as FindAll, with the groups as the list that
\* Python returns.
RECURSIVE FindAllSeq(_, _)
FindAllSeq(attempts, from) ==
  IF \A i \in from..Len(attempts) : ~attempts[i].ok THEN <<>>
  ELSE LET i == CHOOSE k \in from..Len(attempts) :
                  attempts[k].ok /\ \A k0 \in from..(k - 1) : ~attempts[k0].ok
       IN  <<attempts[i].cap>> \o FindAllSeq(attempts, attempts[i].next)

\* re.findall(pattern, s): the captured groups of the matches found from
\* left to right.
FindGroups(p, s) == FindAllSeq([i \in 1..(Len(s) + 1) |-> PatternAt(p, s, i)], 1)

(***************************************************************************)
(* EnhancedEducationExtractor: the level (education_extractor_v3.py)       *)
(***************************************************************************)

\* \s+
Spaces == Plus("\\s")

\* EnhancedExtractionConfig.EDUCATION_LEVEL_PATTERNS, in the order of the
\* dictionary.
EDUCATION_LEVEL_PATTERNS ==
  << [level |-> "high school",
      pattern |-> Alt(<<Cat(<<Lit("high"), Spaces, Lit("school")>>),
                        Cat(<<Lit("secondary"), Spaces, Lit("school")>>),
                        Cat(<<Lit("diploma"), NotAhead(Cat(<<Spaces, Lit("in")>>))>>),
                        Cat(<<Lit("form"), Spaces, Plus("\\d")>>),
                        Cat(<<Lit("grade"), Spaces, Lit("12")>>)>>)],
     [level |-> "associate",
      pattern |-> Alt(<<Cat(<<Lit("associate"), Opt(Lit("'")), Opt(Lit("s")), Spaces,
                              Lit("degree")>>),
                        Lit("a.s."),
                        Cat(<<Lit("associate"), Spaces, Lit("in")>>)>>)],
     [level |-> "bachelor's degree",
      pattern |-> Alt(<<Cat(<<Lit("bachelor"), Opt(Lit("'")), Opt(Lit("s")), Spaces,
                              Opt(Alt(<<Lit("degree"), Lit("diploma")>>))>>),
                        Cat(<<Lit("ba"), WordB>>),
                        Cat(<<Lit("b.s"), WordB>>),
                        Cat(<<Lit("b.sc"), WordB>>),
                        Cat(<<Lit("bs"), Spaces, Lit("degree")>>),
                        Cat(<<Lit("bachelor"), Spaces, Alt(<<Lit("in"), Lit("of")>>)>>),
                        Lit("beng"),
                        Lit("bsc"),
                        Cat(<<Lit("undergraduate"), Spaces, Lit("degree")>>)>>)],
     [level |-> "master's degree",
      pattern |-> Alt(<<Cat(<<Lit("master"), Opt(Lit("'")), Opt(Lit("s")), Spaces,
                              Opt(Alt(<<Lit("degree"), Lit("diploma")>>))>>),
                        Lit("msc"),
                        Cat(<<Lit("m.s"), WordB>>),
                        Cat(<<Lit("m.sc"), WordB>>),
                        Cat(<<Lit("graduate"), Spaces, Lit("degree")>>),
                        Cat(<<Lit("ma"), WordB>>),
                        Cat(<<Lit("master"), Spaces, Alt(<<Lit("in"), Lit("of")>>)>>),
                        Cat(<<Lit("postgraduate"), Spaces, Lit("degree")>>),
                        Lit("mba"),
                        Lit("meng")>>)],
     [level |-> "phd",
      pattern |-> Alt(<<Cat(<<Lit("ph"), Opt(Lit(".")), Lit("d"), Opt(Lit("."))>>),
                        Lit("doctorate"),
                        Lit("doctoral"),
                        Cat(<<Lit("doctor"), Spaces, Lit("of"), Spaces, Lit("philosophy")>>)>>)] >>

\* any(phrase in text for phrase in phrases)
AnyIn(text, phrases) == \E phrase \in phrases : Contains(text, phrase)

\* Method 1 of _extract_level_enhanced: the level of the first pattern, in
\* the order given, that re.search finds in the text; "" when none does.
\* The text is lowercase, so re.IGNORECASE changes nothing.
PatternLevel(patterns, text) ==
  IF \A n \in 1..Len(patterns) : ~Search(patterns[n].pattern, text) THEN ""
  ELSE patterns[CHOOSE n \in 1..Len(patterns) :
                  /\ Search(patterns[n].pattern, text)
                  /\ \A m \in 1..(n - 1) : ~Search(patterns[m].pattern, text)].level

\* Method 2 of _extract_level_enhanced: inference from the context of the
\* word "degree".
ContextLevel(text) ==
  IF ~Contains(text, "degree") THEN ""
  ELSE IF AnyIn(text, {"3 year", "4 year", "4-year", "three year", "four year"})
  THEN "bachelor's degree"
  ELSE IF AnyIn(text, {"2 year", "2-year", "two year"}) THEN "associate"
  ELSE IF AnyIn(text, {"graduate degree", "postgraduate", "post-graduate"})
  THEN (IF Contains(text, "phd") \/ Contains(text, "doctoral") THEN "phd"
        ELSE "master's degree")
  ELSE ""

\* Method 3 of _extract_level_enhanced: the implicit bachelor.
ImplicitLevel(text) ==
  IF AnyIn(text, {"bachelor", "undergraduate", "4 years"}) THEN "bachelor's degree" ELSE ""

\* A mutant of ExtractLevelEnhanced: the implicit heuristic is tried before
\* the patterns.
ExtractLevelImplicitFirst(text) ==
  IF ImplicitLevel(text) # "" THEN ImplicitLevel(text)
  ELSE IF PatternLevel(EDUCATION_LEVEL_PATTERNS, text) # ""
  THEN PatternLevel(EDUCATION_LEVEL_PATTERNS, text)
  ELSE ContextLevel(text)

\* _extract_level_enhanced(text): the first stage that yields a level; ""
\* stands for None.
ExtractLevelEnhanced(text) ==
  IF PatternLevel(EDUCATION_LEVEL_PATTERNS, text) # ""
  THEN PatternLevel(EDUCATION_LEVEL_PATTERNS, text)
  ELSE IF ContextLevel(text) # "" THEN ContextLevel(text)
  ELSE ImplicitLevel(text)

(***************************************************************************)
(* EnhancedEducationExtractor: the major (education_extractor_v3.py)       *)
(***************************************************************************)

\* The characters of s at the positions lo..hi that are in keep, in order.
RECURSIVE KeepAt(_, _, _, _)
KeepAt(s, keep, lo, hi) ==
  IF lo > hi THEN ""
  ELSE IF lo = hi THEN (IF lo \in keep THEN Ch(s, lo) ELSE "")
  ELSE KeepAt(s, keep, lo, (lo + hi) \div 2) \o KeepAt(s, keep, (lo + hi) \div 2 + 1, hi)

\* re.sub(rf'\b{re.escape(noise)}\b', '', s): every occurrence of the phrase
\* that stands between word boundaries is taken out.  The phrases begin and
\* end with a letter, and no phrase overlaps itself.
RemovePhrase(s, noise) ==
  LET hits == {i \in 1..Len(s) :
                 /\ Slice(s, i, i + Len(noise) - 1) = noise
                 /\ ~IsWordCh(Ch(s, i - 1))
                 /\ ~IsWordCh(Ch(s, i + Len(noise)))}
  IN  KeepAt(s, {i \in 1..Len(s) : ~\E h \in hits : h <= i /\ i < h + Len(noise)}, 1, Len(s))

\* noise_phrases of _clean_major, in the order of the list.
noise_phrases ==
  <<"or related field", "or related", "or equivalent", "or similar", "or higher", "or above",
    "preferred", "required", "degree in", "bachelor in", "bachelor of", "master in",
    "master of", "major in", "field of", "study in", "diploma in", "or any related",
    "and related", "related field", "related discipline">>

\* for noise in noise_phrases: major = re.sub(...)
RECURSIVE RemoveNoise(_, _)
RemoveNoise(major, phrases) ==
  IF phrases = <<>> THEN major
  ELSE RemoveNoise(RemovePhrase(major, Head(phrases)), Tail(phrases))

\* re.sub(r'^[,;.\s/&-]+|[,;.\s/&-]+$', '', s) on a stripped string: the
\* leading and the trailing run of these characters are taken away.
IsTrimCh(c) == IsSpace(c) \/ c \in {",", ";", ".", "/", "&", "-"}

TrimPunctuation(s) ==
  IF \A i \in 1..Len(s) : IsTrimCh(Ch(s, i)) THEN ""
  ELSE Slice(s,
             CHOOSE a \in 1..Len(s) : ~IsTrimCh(Ch(s, a)) /\ \A i \in 1..(a - 1) : IsTrimCh(Ch(s, i)),
             CHOOSE b \in 1..Len(s) : ~IsTrimCh(Ch(s, b)) /\ \A i \in (b + 1)..Len(s) : IsTrimCh(Ch(s, i)))

\* tech_tools_keywords and generic_terms of _clean_major
tech_tools_keywords ==
  {"office", "outlook", "excel", "word", "powerpoint", "autocad", "photoshop", "illustrator",
   "python", "java", "javascript", "sql", "html", "css", "react", "vue", "angular", "node",
   "django", "flask", "aws", "azure", "docker", "kubernetes", "git", "linux", "windows",
   "mac", "ios", "android"}

generic_terms ==
  {"any", "related", "all", "various", "other", "relevant", "appropriate", "similar"}

\* s.count(c)
CountCh(s, c) == Cardinality({i \in 1..Len(s) : Ch(s, i) = c})

\* The valid parts of a compound major: the stripped parts longer than two
\* characters that are not generic terms, in order.
RECURSIVE ValidParts(_)
ValidParts(parts) ==
  IF parts = <<>> THEN <<>>
  ELSE (IF Len(Strip(Head(parts))) > 2 /\ Strip(Head(parts)) \notin generic_terms
        THEN <<Strip(Head(parts))>> ELSE <<>>) \o ValidParts(Tail(parts))

\* '/'.join(parts)
RECURSIVE JoinSlash(_)
JoinSlash(parts) ==
  IF parts = <<>> THEN ""
  ELSE IF Len(parts) = 1 THEN Head(parts)
  ELSE Head(parts) \o "/" \o JoinSlash(Tail(parts))

\* The compound handling of _clean_major on the valid parts of the major.
Compound(major, valid_parts) ==
  IF valid_parts = <<>> THEN major
  ELSE IF Len(valid_parts) = 1 THEN valid_parts[1]
  ELSE JoinSlash(SubSeq(valid_parts, 1, IF Len(valid_parts) > 3 THEN 3 ELSE Len(valid_parts)))

\* The checks of _clean_major on the major whose noise, punctuation and
\* redundant spaces were removed.
CleanChecked(major) ==
  IF Len(major) < 3 \/ Len(major) > 60 THEN ""
  ELSE IF WordSet(major) \cap tech_tools_keywords # {} THEN ""
  ELSE IF CountCh(major, ",") > 1 THEN ""
  ELSE IF major \in generic_terms THEN ""
  ELSE IF Contains(major, "/") \/ Contains(major, "&")
  THEN Compound(major, ValidParts(SplitOn(major, {"/", "&"})))
  ELSE major

\* _clean_major(major); "" stands for None.
CleanMajor(major) ==
  IF major = "" THEN ""
  ELSE CleanChecked(CollapseWs(TrimPunctuation(Strip(RemoveNoise(Strip(Lower(major)),
                                                                 noise_phrases)))))

\* ([a-z][a-z\s&/,-]{lo,hi})
MajorGroup(lo, hi) == Cat(<<Rep("a-z", 1, 1), Rep("a-z\\s&/,-", lo, hi)>>)

\* (?:\s+or|\s+and|,|\.|$|related)
MajorEnd ==
  Alt(<<Cat(<<Spaces, Lit("or")>>), Cat(<<Spaces, Lit("and")>>), Lit(","), Lit("."), Eol,
        Lit("related")>>)

InOrOf == Alt(<<Lit("in"), Lit("of")>>)

\* EnhancedExtractionConfig.MAJOR_EXTRACTION_PATTERNS, in the order of the
\* list.
MAJOR_EXTRACTION_PATTERNS ==
  << [pre |-> Cat(<<Alt(<<Lit("degree"), Lit("diploma"),
                          Cat(<<Lit("bachelor"), Opt(Lit("'")), Opt(Lit("s"))>>),
                          Cat(<<Lit("master"), Opt(Lit("'")), Opt(Lit("s"))>>),
                          Lit("phd")>>),
                    Spaces, InOrOf, Spaces>>),
      group |-> MajorGroup(2, 50), post |-> MajorEnd],
     [pre |-> Cat(<<Alt(<<Lit("ba"), Lit("bs"), Lit("bsc"), Lit("beng"), Lit("ma"), Lit("ms"),
                          Lit("msc"), Lit("mba"), Lit("meng")>>),
                    Spaces, Opt(InOrOf), Star("\\s")>>),
      group |-> MajorGroup(2, 50), post |-> MajorEnd],
     [pre |-> Cat(<<Lit("major"), Plus("\\s:")>>),
      group |-> MajorGroup(2, 50), post |-> MajorEnd],
     [pre |-> Cat(<<Lit("field"), Spaces, Lit("of"), Spaces,
                    Opt(Cat(<<Lit("study"), Plus("\\s:")>>))>>),
      group |-> MajorGroup(2, 50), post |-> MajorEnd],
     [pre |-> Cat(<<Lit("study"), Plus("\\s:")>>),
      group |-> MajorGroup(2, 50), post |-> MajorEnd],
     [pre |-> Cat(<<Lit("graduated"), Spaces, Alt(<<Lit("in"), Lit("with"), Lit("from")>>),
                    Spaces>>),
      group |-> MajorGroup(2, 50), post |-> MajorEnd],
     [pre |-> Cat(<<>>),
      group |-> MajorGroup(2, 40),
      post |-> Cat(<<Spaces, Lit("or"), Spaces, Lit("related"), Spaces, Lit("field")>>)] >>

\* field_indicators of _extract_major_enhanced
field_indicators ==
  << [pre |-> Cat(<<Alt(<<Lit("knowledge"), Lit("experience"), Lit("background")>>),
                    Spaces, Lit("in"), Spaces>>),
      group |-> MajorGroup(3, 40), post |-> Cat(<<>>), source |-> "experience"],
     [pre |-> Cat(<<Alt(<<Lit("specialized"), Lit("specialization")>>),
                    Spaces, Lit("in"), Spaces>>),
      group |-> MajorGroup(3, 40), post |-> Cat(<<>>), source |-> "specialization"] >>

\* The candidates one list of matches contributes: each match is cleaned and
\* kept when the cleaned major has more than two characters.
RECURSIVE CleanedCandidates(_, _)
CleanedCandidates(matches, source) ==
  IF matches = <<>> THEN <<>>
  ELSE (IF Len(CleanMajor(Head(matches))) > 2
        THEN <<[major |-> CleanMajor(Head(matches)), source |-> source]>> ELSE <<>>)
         \o CleanedCandidates(Tail(matches), source)

\* Strategy 1: the candidates of the regular expressions, pattern by pattern.
RECURSIVE RegexCandidates(_, _)
RegexCandidates(patterns, text_lower) ==
  IF patterns = <<>> THEN <<>>
  ELSE CleanedCandidates(FindGroups(Head(patterns), text_lower), "regex")
         \o RegexCandidates(Tail(patterns), text_lower)

\* re.search(rf'\b{re.escape(major)}\b', text_lower)
WholeWord(major) == Cat(<<WordB, Lit(major), WordB>>)

\* Strategy 2: the majors of the taxonomy, longer than three characters,
\* that stand in the text as whole words, in the order of the taxonomy.
RECURSIVE TaxonomyCandidates(_, _)
TaxonomyCandidates(taxonomy, text_lower) ==
  IF taxonomy = <<>> THEN <<>>
  ELSE (IF Len(Head(taxonomy)) > 3 /\ Search(WholeWord(Head(taxonomy)), text_lower)
        THEN <<[major |-> Head(taxonomy), source |-> "taxonomy"]>> ELSE <<>>)
         \o TaxonomyCandidates(Tail(taxonomy), text_lower)

\* Strategy 3: the candidates of the field indicators.
RECURSIVE IndicatorCandidates(_, _)
IndicatorCandidates(indicators, text_lower) ==
  IF indicators = <<>> THEN <<>>
  ELSE CleanedCandidates(FindGroups(Head(indicators), text_lower), Head(indicators).source)
         \o IndicatorCandidates(Tail(indicators), text_lower)

\* candidates of _extract_major_enhanced, in the order they are appended.
Candidates(taxonomy, text_lower) ==
  RegexCandidates(MAJOR_EXTRACTION_PATTERNS, text_lower)
    \o TaxonomyCandidates(taxonomy, text_lower)
    \o IndicatorCandidates(field_indicators, text_lower)

\* The score of a candidate: the priority of its source, and the bonus when
\* the candidate is in major_set.
SourceScore(source) ==
  CASE source = "taxonomy" -> 10
    [] source = "regex" -> 8
    [] source = "specialization" -> 6
    [] OTHER -> 5

Score(taxonomy, candidate) ==
  SourceScore(candidate.source) + (IF candidate.major \in Range(taxonomy) THEN 5 ELSE 0)

\* A mutant of Ranked: a major generated by several sources gets the score of
\* its highest-scoring source.
RankedByBestSource(taxonomy, candidates) ==
  LET first == {n \in 1..Len(candidates) :
                  \A m \in 1..(n - 1) : candidates[m].major # candidates[n].major}
  IN  [k \in 1..Cardinality(first) |->
         [major |-> candidates[Nth(first, k)].major,
          score |-> Max({Score(taxonomy, candidates[n]) :
                           n \in {m \in 1..Len(candidates) :
                                    candidates[m].major = candidates[Nth(first, k)].major}})]]

\* ranked before the sort: the first occurrence of each major, with its
\* score.
Ranked(taxonomy, candidates) ==
  LET first == {n \in 1..Len(candidates) :
                  \A m \in 1..(n - 1) : candidates[m].major # candidates[n].major}
  IN  [k \in 1..Cardinality(first) |->
         [major |-> candidates[Nth(first, k)].major,
          score |-> Score(taxonomy, candidates[Nth(first, k)])]]

\* ranked.sort(key=score, reverse=True); ranked[0][0]: the sort is stable,
\* so the first of the candidates of the highest score comes first.
Best(ranked) ==
  IF ranked = <<>> THEN ""
  ELSE ranked[CHOOSE n \in 1..Len(ranked) :
                /\ \A m \in 1..Len(ranked) : ranked[m].score <= ranked[n].score
                /\ \A m \in 1..(n - 1) : ranked[m].score < ranked[n].score].major

\* _extract_major_enhanced(text_lower, text_original); "" stands for None.
ExtractMajorEnhanced(taxonomy, text_lower) == Best(Ranked(taxonomy, Candidates(taxonomy, text_lower)))

\* common_fields of _validate_major, in the order of the dictionary.
common_fields ==
  << <<"engineering", "engineering">>, <<"computer", "computer science">>,
     <<"business", "business administration">>, <<"design", "design">>,
     <<"architecture", "architecture">>, <<"marketing", "marketing">>,
     <<"finance", "finance">>, <<"accounting", "accounting">>,
     <<"management", "management">>, <<"education", "education">>,
     <<"science", "science">> >>

\* The fuzzy match of _validate_major: the first major of the taxonomy,
\* longer than three characters, that is in the major or contains it.
FuzzyHits(taxonomy, major) ==
  {n \in 1..Len(taxonomy) :
     /\ Contains(major, taxonomy[n]) \/ Contains(taxonomy[n], major)
     /\ Len(taxonomy[n]) > 3}

\* The partial match of _validate_major: the fields whose key is in the
\* major.
FieldHits(major) == {n \in 1..Len(common_fields) : Contains(Lower(major), common_fields[n][1])}

\* _validate_major(major); "" stands for None.
ValidateMajor(taxonomy, major) ==
  IF major = "" THEN ""
  ELSE IF major \in Range(taxonomy) THEN major
  ELSE IF FuzzyHits(taxonomy, major) # {} THEN taxonomy[Nth(FuzzyHits(taxonomy, major), 1)]
  ELSE IF FieldHits(major) # {} THEN common_fields[Nth(FieldHits(major), 1)][2]
  ELSE major

(***************************************************************************)
(* EnhancedEducationExtractor: the language-model fallback and extract     *)
(***************************************************************************)

\* A mutant of LlmLevel: the answer of the model is returned as it is.
LlmLevelRaw(answer) == Lower(Strip(answer))

\* The parsing of the answer to the level prompt in _extract_with_llm; ""
\* stands for None.
LlmLevel(answer) ==
  IF AnyIn(Lower(Strip(answer)), {"bachelor", "ba", "bs", "undergraduate"})
  THEN "bachelor's degree"
  ELSE IF AnyIn(Lower(Strip(answer)), {"master", "ms", "ma", "postgraduate"})
  THEN "master's degree"
  ELSE IF AnyIn(Lower(Strip(answer)), {"phd", "doctorate", "doctoral"}) THEN "phd"
  ELSE IF AnyIn(Lower(Strip(answer)), {"high school", "secondary"}) THEN "high school"
  ELSE IF Contains(Lower(Strip(answer)), "associate") THEN "associate"
  ELSE ""

\* The handling of the answer to the major prompt in _extract_with_llm.
LlmMajor(answer) ==
  IF Strip(answer) # ""
       /\ Lower(Strip(answer)) \notin {"none", "not specified", "any", "n/a", "not mentioned"}
  THEN CleanMajor(Strip(answer))
  ELSE ""

\* A mutant of LoadLlm: a load that failed is taken for a loaded model.
LoadLlmUnchecked(pipe, llm) == "loaded"

\* A mutant of LoadLlm: the model is loaded again by every call of the
\* fallback, and a failure of that load leaves no model.
LoadLlmEveryCall(pipe, llm) == IF llm.load = "ok" THEN "loaded" ELSE "None"

\* _load_llm(): the model is loaded when llm_pipe is None; a failure of the
\* load is caught and leaves llm_pipe None.
LoadLlm(pipe, llm) == IF pipe = "None" /\ llm.load = "ok" THEN "loaded" ELSE pipe

\* The prompts of _extract_with_llm on a loaded model.  llm says what the
\* model does: llm.level and llm.major are the outcomes of the two prompts,
\* an answer or an exception.  An exception ends the try block: what was
\* assigned before it is kept.
Prompted(pipe, llm) ==
  IF llm.level.status = "raise"
  THEN [called |-> TRUE, level |-> "", major |-> "", pipe |-> pipe, prompts |-> <<"level">>]
  ELSE IF llm.major.status = "raise"
  THEN [called |-> TRUE, level |-> LlmLevel(llm.level.text), major |-> "", pipe |-> pipe,
        prompts |-> <<"level", "major">>]
  ELSE [called |-> TRUE, level |-> LlmLevel(llm.level.text), major |-> LlmMajor(llm.major.text),
        pipe |-> pipe, prompts |-> <<"level", "major">>]

\* When _extract_with_llm is not called.
NoLlm(pipe) ==
  [called |-> FALSE, level |-> "", major |-> "", pipe |-> pipe, prompts |-> <<>>]

\* When the model cannot be loaded: _extract_with_llm returns (None, None).
NotLoaded == [called |-> TRUE, level |-> "", major |-> "", pipe |-> "None", prompts |-> <<>>]

\* _extract_with_llm(text): the level and the major of the language model,
\* the state of llm_pipe after the call and the prompts that were sent.
ExtractWithLlm(pipe, llm) ==
  IF LoadLlm(pipe, llm) = "None" THEN NotLoaded ELSE Prompted(LoadLlm(pipe, llm), llm)

\* Steps 3 and 4 of extract, given the level and the major of the primary
\* methods and what the fallback returned: a or b keeps a unless it is None.
Combine(taxonomy, level, major, fallback) ==
  [level |-> IF level # "" THEN level ELSE fallback.level,
   major |-> ValidateMajor(taxonomy, CleanMajor(IF major # "" THEN major ELSE fallback.major)),
   primary_level |-> level,
   primary_major |-> major,
   fallback |-> fallback]

\* A mutant of WithFallback: the fallback is called on every text.
WithFallbackAlways(taxonomy, pipe, llm, level, major) ==
  Combine(taxonomy, level, major, ExtractWithLlm(pipe, llm))

\* Step 3 of extract: the fallback is called when the level or the major is
\* missing.
WithFallback(taxonomy, pipe, llm, level, major) ==
  Combine(taxonomy, level, major,
          IF level = "" \/ major = "" THEN ExtractWithLlm(pipe, llm) ELSE NoLlm(pipe))

\* EnhancedEducationExtractor.extract(text) on an extractor whose llm_pipe is
\* pipe, with a language model that behaves as llm says.
EducationExtract(taxonomy, pipe, text, llm) ==
  IF text = "" THEN Combine(taxonomy, "", "", NoLlm(pipe))
  ELSE WithFallback(taxonomy, pipe, llm, ExtractLevelEnhanced(Lower(text)),
                    ExtractMajorEnhanced(taxonomy, Lower(text)))

\* --- inputs ------------------------------------------------------------

\* The answers of the language model to the two prompts.
LevelAnswers == {"none", "MBA", "PhD", " High school\n", "Somewhat basic"}
MajorAnswers == {"None", "Computer Science", "accounting or related field", "Python"}

Raise == [status |-> "raise", text |-> ""]
Answer(text) == [status |-> "ok", text |-> text]

\* What the language model does during one call: the load fails (the
\* answers are those the model would give if it were prompted all the
\* same); the level prompt raises; the major prompt raises; both prompts
\* are answered.
LlmOutcomes ==
  {[load |-> "fail", level |-> Answer("PhD"), major |-> Answer("Computer Science")]}
    \cup {[load |-> "ok", level |-> Raise, major |-> Raise]}
    \cup {[load |-> "ok", level |-> Answer(a), major |-> Raise] : a \in LevelAnswers}
    \cup {[load |-> "ok", level |-> Answer(a), major |-> Answer(m)] :
            a \in LevelAnswers, m \in MajorAnswers}

EducationTaxonomies ==
  {<<>>, <<"computer science", "accounting", "finance">>,
   <<"banking & finance", "finance", "data science">>}

EducationTexts ==
  {"", "Bachelor's degree in Computer Science required", "MBA preferred",
   "Diploma in nursing", "4 year degree", "Fluent English",
   "degree in computer science. finance", "Major: accounting or related field",
   "knowledge in banking & finance", "specialized in law. experience in tax",
   "Undergraduate with background in data science", "PhD",
   "Associate degree or 4 years of experience", "Diploma or Master's degree",
   "Graduate degree, doctoral", "Secondary school"}

InitEducation ==
  /\ synonyms = <<>>
  /\ blacklist = {}
  /\ skills_db = {}
  /\ major_taxonomy \in EducationTaxonomies
  /\ llm_pipe \in {"None", "loaded"}
  /\ ServicesUnused
  /\ AllBuilt
  /\ call = NoCall

\* education_extractor.extract(text): one call is followed from each state
\* of the extractor.
ExtractEducation(text, llm) ==
  /\ call = NoCall
  /\ call' = [op |-> "education_extract", text |-> text, llm |-> llm, pipe |-> llm_pipe,
              out |-> EducationExtract(major_taxonomy, llm_pipe, text, llm)]
  /\ llm_pipe' = call'.out.fallback.pipe
  /\ UNCHANGED <<synonyms, blacklist, skills_db, major_taxonomy, files, built>>
  /\ UNCHANGED services

NextEducation ==
  \E text \in EducationTexts : \E llm \in LlmOutcomes : ExtractEducation(text, llm)

SpecEducation == InitEducation /\ [][NextEducation]_vars

(***************************************************************************)
(* Batch and diagnostic entry points                                       *)
(***************************************************************************)

\* EnhancedSkillsExtractor.extract(text) as a function of the engine, the
\* text and what the two external capabilities do on it.
ExtractSkills(db, syn, bl, text, kb, ner) ==
  IF text = "" THEN <<>>
  ELSE PostProcess(syn, bl, AggregateResults(RunStrategies(db, text, kb, ner)))

\* A mutant of SkillsBatch: the texts without skills are left out of the
\* list.
NonEmpty(list) == IF list = <<>> THEN <<>> ELSE <<list>>

RECURSIVE SkillsBatchNonEmpty(_, _, _, _)
SkillsBatchNonEmpty(db, syn, bl, items) ==
  IF items = <<>> THEN <<>>
  ELSE NonEmpty(ExtractSkills(db, syn, bl, Head(items).text, Head(items).kb, Head(items).ner))
         \o SkillsBatchNonEmpty(db, syn, bl, Tail(items))

\* EnhancedSkillsExtractor.extract_batch(texts):
\* [self.extract(text) for text in texts].  An item is a text with what the
\* capabilities do on it.
RECURSIVE SkillsBatch(_, _, _, _)
SkillsBatch(db, syn, bl, items) ==
  IF items = <<>> THEN <<>>
  ELSE <<ExtractSkills(db, syn, bl, Head(items).text, Head(items).kb, Head(items).ner)>>
         \o SkillsBatch(db, syn, bl, Tail(items))

\* What the language model does on an item when the load of the model
\* succeeds or fails for the whole batch.
LlmOf(item, load) == [load |-> load, level |-> item.llm.level, major |-> item.llm.major]

\* EnhancedEducationExtractor.extract_batch(texts):
\* [self.extract(text) for text in texts]; each call finds llm_pipe as the
\* call before it left it.
RECURSIVE EducationBatch(_, _, _, _)
EducationBatchAfter(taxonomy, out, items, load) ==
  <<out>> \o EducationBatch(taxonomy, out.fallback.pipe, items, load)

EducationBatch(taxonomy, pipe, items, load) ==
  IF items = <<>> THEN <<>>
  ELSE EducationBatchAfter(taxonomy,
                           EducationExtract(taxonomy, pipe, Head(items).text,
                                            LlmOf(Head(items), load)),
                           Tail(items), load)

\* The dictionary extract returns.
Education(out) == [level |-> out.level, major |-> out.major]

\* llm_pipe after the calls whose results are outs.
PipeAfter(pipe, outs) == IF outs = <<>> THEN pipe ELSE outs[Len(outs)].fallback.pipe

\* NERExtractor.extract_batch(texts): [] for every text when there is no
\* text or no pipeline; else the documents of nlp.pipe are filtered one by
\* one inside a single try block, so an exception on any document gives []
\* for every text.  The filter of a document is that of extract; a
\* document of an empty text has no entity.
NERExtractBatch(tech_skills, items, nlp) ==
  IF ~nlp \/ \E n \in 1..Len(items) : items[n].ner.status = "fail"
  THEN [n \in 1..Len(items) |-> <<>>]
  ELSE [n \in 1..Len(items) |-> NERExtract(tech_skills, items[n].text, items[n].ner)]

\* NERExtractor.extract(text) on a pipeline that is loaded or not.
NEROf(item, nlp) == IF nlp THEN item.ner ELSE [status |-> "unavailable", ents |-> <<>>]

\* The lengths of the lists of a record of lists.
Lengths(lists) == [k \in DOMAIN lists |-> Len(lists[k])]

\* The dictionary get_extraction_stats returns.
Stats(results, aggregated, normalized, validated, final) ==
  [strategy_results |-> Lengths(results),
   pipeline_stages |-> [aggregated |-> Cardinality(aggregated), normalized |-> Len(normalized),
                        validated |-> Len(validated), final |-> Len(final)],
   final_skills |-> final,
   by_strategy |-> results]

\* final = self.deduplicator.deduplicate(validated)
StatsValidated(syn, results, aggregated, normalized, validated) ==
  Stats(results, aggregated, normalized, validated, DeduplicateList(syn, validated))

\* validated = self.validator.validate(normalized)
StatsNormalized(syn, bl, results, aggregated, normalized) ==
  StatsValidated(syn, results, aggregated, normalized, Validate(bl, normalized))

\* normalized = self.normalizer.normalize(aggregated)
StatsAggregated(syn, bl, results, aggregated) ==
  StatsNormalized(syn, bl, results, aggregated, Normalize(aggregated))

\* aggregated = self._aggregate_results(results)
StatsOf(syn, bl, results) == StatsAggregated(syn, bl, results, AggregateResults(results))

\* get_extraction_stats(text) on a string: the six strategies are called
\* without the guard of extract, then aggregation and the three
\* post-processing stages.
ExtractionStats(db, syn, bl, text, kb, ner) ==
  StatsOf(syn, bl, RunStrategies(db, text, kb, ner))

\* --- inputs ------------------------------------------------------------

\* The longest list of texts given to a batch function.
MaxBatch == 2

\* Texts with what the three external capabilities do on them.
BatchItems ==
  {[text |-> "", kb |-> [status |-> "ok", keywords |-> <<>>],
    ner |-> [status |-> "ok", ents |-> <<>>], llm |-> [level |-> Raise, major |-> Raise]],
   [text |-> "We use SQL and Tableau",
    kb |-> [status |-> "ok",
            keywords |-> <<[keyword |-> "tableau", score |-> 55, pos_ok |-> TRUE]>>],
    ner |-> [status |-> "ok", ents |-> <<[text |-> "Tableau", label |-> "PRODUCT"]>>],
    llm |-> [level |-> Answer("none"), major |-> Answer("Computer Science")]],
   [text |-> "MBA preferred, Python (Django)",
    kb |-> [status |-> "fail", keywords |-> <<>>],
    ner |-> [status |-> "fail", ents |-> <<>>],
    llm |-> [level |-> Answer("PhD"), major |-> Answer("accounting or related field")]],
   [text |-> "Fluent English, Google",
    kb |-> [status |-> "ok", keywords |-> <<>>],
    ner |-> [status |-> "ok", ents |-> <<[text |-> "Google", label |-> "ORG"]>>],
    llm |-> [level |-> Answer("Somewhat basic"), major |-> Raise]]}

Batches == SeqsUpTo(BatchItems, MaxBatch)

InitEntry ==
  /\ synonyms = <<Entry("Microsoft Office", <<"ms office", "office suite">>)>>
  /\ blacklist = {"microsoft office", "good communication"}
  /\ skills_db = LoadSkillsDb({"Python", "SQL", "C++"})
  /\ major_taxonomy = <<"computer science", "accounting">>
  /\ llm_pipe \in {"None", "loaded"}
  /\ ServicesUnused
  /\ AllBuilt
  /\ call = NoCall

\* extractor.extract_batch(texts)
ExtractBatch(items) ==
  /\ call = NoCall
  /\ call' = [op |-> "extract_batch", items |-> items,
              invoked |-> IF \A n \in 1..Len(items) : items[n].text = "" THEN {}
                          ELSE {"keybert", "ner"},
              raised |-> "",
              ret |-> SkillsBatch(skills_db, synonyms, blacklist, items)]
  /\ UNCHANGED engine

\* education_extractor.extract_batch(texts)
EducationExtractBatch(items, load) ==
  /\ call = NoCall
  /\ call' = [op |-> "education_extract_batch", items |-> items, load |-> load,
              pipe |-> llm_pipe,
              outs |-> EducationBatch(major_taxonomy, llm_pipe, items, load),
              raised |-> ""]
  /\ llm_pipe' = PipeAfter(llm_pipe, call'.outs)
  /\ UNCHANGED <<synonyms, blacklist, skills_db, major_taxonomy, files, built>>
  /\ UNCHANGED services

\* ner_extractor.extract_batch(texts); nlp says whether the constructor
\* could load the spaCy pipeline.
NERExtractBatchCall(items, nlp) ==
  /\ call = NoCall
  /\ call' = [op |-> "ner_extract_batch", items |-> items, nlp |-> nlp,
              invoked |-> IF nlp /\ items # <<>> THEN {"ner"} ELSE {},
              raised |-> "",
              ret |-> NERExtractBatch(skills_db, items, nlp)]
  /\ UNCHANGED engine

\* extractor.get_extraction_stats(text).  null says that the argument is
\* None: the strategies return [] on it, then _direct_skill_scan calls
\* text.lower() and the AttributeError leaves the function.
GetExtractionStats(item, null) ==
  /\ call = NoCall
  /\ call' = IF null
             THEN [op |-> "get_extraction_stats", text |-> "", null |-> TRUE, invoked |-> {},
                   raised |-> "AttributeError", ret |-> <<>>]
             ELSE [op |-> "get_extraction_stats", text |-> item.text, null |-> FALSE,
                   invoked |-> IF item.text = "" THEN {} ELSE {"keybert", "ner"},
                   raised |-> "",
                   ret |-> ExtractionStats(skills_db, synonyms, blacklist, item.text,
                                           item.kb, item.ner)]
  /\ UNCHANGED engine

NextEntry ==
  \/ \E items \in Batches : ExtractBatch(items)
  \/ \E items \in Batches : \E load \in {"ok", "fail"} : EducationExtractBatch(items, load)
  \/ \E items \in Batches : \E nlp \in BOOLEAN : NERExtractBatchCall(items, nlp)
  \/ \E item \in BatchItems : \E null \in BOOLEAN : GetExtractionStats(item, null)
  \/ \E item \in BatchItems : Extract(item.text, item.kb, item.ner)
  \/ \E item \in BatchItems : \E load \in {"ok", "fail"} :
       ExtractEducation(item.text, LlmOf(item, load))

SpecEntry == InitEntry /\ [][NextEntry]_vars

(***************************************************************************)
(* Sequences of extract calls on one EnhancedSkillsExtractor               *)
(***************************************************************************)

\* The number of extract calls followed on one engine.
MaxCalls == 3

\* The outcome of a call of the keyphrase strategy that keeps a record of an
\* earlier failure and does not invoke the model after one.
KeyBERTLatched(kb, failed_before) ==
  IF failed_before THEN [status |-> "disabled", keywords |-> <<>>] ELSE kb

\* What KeyBERTExtractor.extract meets when it runs after other calls: the
\* except clause prints and returns [], it writes no attribute, and extract
\* reads none but self.model, so the model is invoked and kb is what it does
\* in this call, whether or not an earlier call failed.
KeyBERTCalled(kb, failed_before) == kb

\* --- inputs ------------------------------------------------------------

SequenceTexts ==
  {"", "knowledge of python and sql\n", "Tableau and Power BI at Google"}

SequenceKeyBERT(text) ==
  {kb \in KeyBERTOutcomes(text) :
     kb.keywords = <<>> \/ (kb.keywords[1].score = 55 /\ kb.keywords[1].pos_ok)}

SequenceNER == {[status |-> "ok", ents |-> <<>>], [status |-> "fail", ents |-> <<>>]}

InitSequence ==
  /\ synonyms \in ExtractSynonymMaps
  /\ blacklist = {"microsoft office", "good communication"}
  /\ skills_db = LoadSkillsDb({"Python", "SQL", "C++", "R Programming", "MS Office", "Excel"})
  /\ major_taxonomy = <<>>
  /\ llm_pipe = "None"
  /\ ServicesUnused
  /\ AllBuilt
  /\ call = NoCall

\* extractor.extract(text) as the next call of a sequence of calls on the
\* same engine.  n counts the calls, failed_before says whether the keyphrase
\* model raised in an earlier call of the sequence, and before holds the
\* reference tables as the call found them.
ExtractInSequence(text, kb, ner) ==
  LET n == IF call = NoCall THEN 0 ELSE call.n
      failed_before == call # NoCall /\ (call.failed_before \/ call.keybert = "fail")
      met == KeyBERTCalled(kb, failed_before)
      results == IF text = "" THEN NoResults ELSE RunStrategies(skills_db, text, met, ner)
  IN  /\ n < MaxCalls
      /\ call' = [op |-> "extract", n |-> n + 1, text |-> text, kb |-> kb, ner_outcome |-> ner,
                  failed_before |-> failed_before,
                  keybert |-> IF text = "" \/ met.status = "disabled" THEN "not invoked"
                              ELSE met.status,
                  ner |-> ner.status,
                  invoked |-> IF text = "" THEN {}
                              ELSE (IF met.status = "disabled" THEN {} ELSE {"keybert"})
                                     \cup {"ner"},
                  results |-> results,
                  before |-> <<skills_db, synonyms, blacklist>>,
                  ret |-> IF text = "" THEN <<>>
                          ELSE PostProcess(synonyms, blacklist, AggregateResults(results))]
      /\ UNCHANGED engine

NextSequence ==
  \E text \in SequenceTexts :
    \E kb \in SequenceKeyBERT(text) :
      \E ner \in SequenceNER : ExtractInSequence(text, kb, ner)

SpecSequence == InitSequence /\ [][NextSequence]_vars

(***************************************************************************)
(* Sequences of extract calls on one EnhancedEducationExtractor            *)
(***************************************************************************)

\* --- inputs ------------------------------------------------------------

\* A text the primary methods resolve, one that leaves the major unresolved,
\* one that leaves both unresolved, and the empty text.
SequenceEducationTexts ==
  {"", "Bachelor's degree in Computer Science required", "MBA preferred", "Fluent English"}

SequenceLlmOutcomes ==
  {[load |-> "fail", level |-> Answer("PhD"), major |-> Answer("Computer Science")],
   [load |-> "ok", level |-> Raise, major |-> Raise],
   [load |-> "ok", level |-> Answer("PhD"), major |-> Answer("Computer Science")]}

\* The extractor as __init__ leaves it: llm_pipe is None.
InitEducationSequence ==
  /\ synonyms = <<>>
  /\ blacklist = {}
  /\ skills_db = {}
  /\ major_taxonomy \in {<<>>, <<"computer science", "accounting", "finance">>}
  /\ llm_pipe = "None"
  /\ ServicesUnused
  /\ AllBuilt
  /\ call = NoCall

\* education_extractor.extract(text) as the next call of a sequence of calls
\* on one extractor.  n counts the calls, pipe is llm_pipe as the call finds
\* it, and unresolved says whether in this call or an earlier one the
\* primary methods ran and left the level or the major unresolved.
ExtractEducationInSequence(text, llm) ==
  LET n == IF call = NoCall THEN 0 ELSE call.n
      out == EducationExtract(major_taxonomy, llm_pipe, text, llm)
  IN  /\ n < MaxCalls
      /\ call' = [op |-> "education_extract", n |-> n + 1, text |-> text, llm |-> llm,
                  pipe |-> llm_pipe, out |-> out,
                  unresolved |-> \/ call # NoCall /\ call.unresolved
                                 \/ text # "" /\ (out.primary_level = "" \/ out.primary_major = "")]
      /\ llm_pipe' = call'.out.fallback.pipe
      /\ UNCHANGED <<tables, services>>

NextEducationSequence ==
  \E text \in SequenceEducationTexts :
    \E llm \in SequenceLlmOutcomes : ExtractEducationInSequence(text, llm)

SpecEducationSequence == InitEducationSequence /\ [][NextEducationSequence]_vars

(***************************************************************************)
(* First use of the lazily loaded capabilities                             *)
(* (education_extractor_v3.py, src/jobs/services/embeddings.py)            *)
(***************************************************************************)

\* The threads of the hosting process that call the capabilities, and the
\* number of calls each of them makes.
MaxThreads == 2
MaxUses == 2

\* The two capabilities that are loaded on first use: the language model of
\* the education extractor and the model of the embedding service.
Capabilities == {"llm", "embedding"}

\* The attribute that caches the capability: self.llm_pipe or
\* EmbeddingService._model.
Slot(cap) == IF cap = "llm" THEN llm_pipe ELSE embedding_model

\* A thread that is making no call.  inits and attempts count, per
\* capability, the loads the thread completed and the loads it began.
Idle ==
  [pc |-> "idle", cap |-> "none", uses |-> 0, began |-> "none", result |-> "none",
   inits |-> [cap \in Capabilities |-> 0], attempts |-> [cap \in Capabilities |-> 0]]

InitFirstUse ==
  /\ synonyms = <<>>
  /\ blacklist = {}
  /\ skills_db = {}
  /\ major_taxonomy = <<>>
  /\ AllBuilt
  /\ llm_pipe = "None"
  /\ embedding_model = "None"
  /\ use_semantic = TRUE
  /\ threads = [t \in 1..MaxThreads |-> Idle]
  /\ call = NoCall

\* Thread t enters _extract_with_llm(text) (cap = "llm") or embed(text) /
\* embed_batch(texts) (cap = "embedding").  began is the slot as the call
\* finds it.
BeginUse(t, cap) ==
  /\ threads[t].pc = "idle"
  /\ threads[t].uses < MaxUses
  /\ threads' = [threads EXCEPT ![t] =
                   [@ EXCEPT !.pc = "test", !.cap = cap, !.uses = @ + 1,
                             !.began = Slot(cap), !.result = "none"]]
  /\ UNCHANGED <<tables, llm_pipe, embedding_model, use_semantic, call>>

\* The test `is None` of the slot: _extract_with_llm tests llm_pipe and
\* _load_llm tests it again; _load_model tests _model once.  Nothing is
\* held between the test and the load.
TestNone(t) ==
  /\ threads[t].pc \in {"test", "test_again"}
  /\ threads' = [threads EXCEPT ![t].pc =
                   IF Slot(threads[t].cap) # "None" THEN "use"
                   ELSE IF threads[t].cap = "llm" /\ threads[t].pc = "test" THEN "test_again"
                   ELSE "load"]
  /\ UNCHANGED <<tables, llm_pipe, embedding_model, use_semantic, call>>

\* The load of the language model by thread t: the three constructions, then
\* the assignment of llm_pipe; an exception is caught and printed and leaves
\* the attribute as it is.
LoadLlmStep(t, loaded) ==
  /\ threads[t].pc = "load"
  /\ threads[t].cap = "llm"
  /\ llm_pipe' = IF loaded THEN "loaded" ELSE llm_pipe
  /\ threads' = [threads EXCEPT ![t] =
                   [@ EXCEPT !.pc = "use",
                             !.attempts = [@ EXCEPT !["llm"] = @ + 1],
                             !.inits = [@ EXCEPT !["llm"] = @ + (IF loaded THEN 1 ELSE 0)]]]
  /\ UNCHANGED <<tables, embedding_model, use_semantic, call>>

\* _load_model by thread t: the construction of the SentenceTransformer,
\* then the assignment of _model; an exception assigns False and is raised
\* again, which ends embed.
LoadModelStep(t, loaded) ==
  /\ threads[t].pc = "load"
  /\ threads[t].cap = "embedding"
  /\ embedding_model' = IF loaded THEN "loaded" ELSE "False"
  /\ threads' = [threads EXCEPT ![t] =
                   [@ EXCEPT !.pc = IF loaded THEN "use" ELSE "idle",
                             !.result = IF loaded THEN "none" ELSE "raised",
                             !.attempts = [@ EXCEPT !["embedding"] = @ + 1],
                             !.inits = [@ EXCEPT !["embedding"] = @ + (IF loaded THEN 1 ELSE 0)]]]
  /\ UNCHANGED <<tables, llm_pipe, use_semantic, call>>

\* The read of the slot that ends the call.  _extract_with_llm returns
\* (None, None) when llm_pipe is None and prompts the pipeline otherwise;
\* embed returns _model.encode(...), which raises AttributeError on False.
UseSlot(t) ==
  /\ threads[t].pc = "use"
  /\ threads' = [threads EXCEPT ![t] =
                   [@ EXCEPT !.pc = "idle",
                             !.result = IF Slot(threads[t].cap) = "loaded" THEN "answered"
                                        ELSE IF threads[t].cap = "llm" THEN "nothing"
                                        ELSE "raised"]]
  /\ UNCHANGED <<tables, llm_pipe, embedding_model, use_semantic, call>>

NextFirstUse ==
  \E t \in 1..MaxThreads :
    \/ \E cap \in Capabilities : BeginUse(t, cap)
    \/ TestNone(t)
    \/ \E loaded \in BOOLEAN : LoadLlmStep(t, loaded)
    \/ \E loaded \in BOOLEAN : LoadModelStep(t, loaded)
    \/ UseSlot(t)

SpecFirstUse == InitFirstUse /\ [][NextFirstUse]_vars

(***************************************************************************)
(* SkillScorer and the embedding service it calls                          *)
(* (src/jobs/services/scorers.py, src/jobs/services/embeddings.py)         *)
(***************************************************************************)

\* set(s.lower() for s in skills)
LowerSet(skills) == {Lower(skills[n]) : n \in 1..Len(skills)}

\* A score is a fraction num/den; similarities are given in hundredths.
One == [num |-> 1, den |-> 1]

\* len(exact_matches) / len(job_set)
ExactScore(user_set, job_set) ==
  [num |-> Cardinality(user_set \cap job_set), den |-> Cardinality(job_set)]

\* A mutant of ReturnsExact: the test of use_semantic is left out.
ReturnsExactIgnoringFlag(exact_score, semantic) == 10 * exact_score.num >= 7 * exact_score.den

\* `if exact_score >= 0.7 or not self.use_semantic: return exact_score`
ReturnsExact(exact_score, semantic) ==
  10 * exact_score.num >= 7 * exact_score.den \/ ~semantic

\* min(exact_score * 0.7 + semantic_score * 0.3, 1.0), semantic_score in
\* hundredths.
FinalScore(exact_score, semantic_score) ==
  LET num == 7000 * exact_score.num + 30 * semantic_score * exact_score.den
      den == 10000 * exact_score.den
  IN  IF num > den THEN One ELSE [num |-> num, den |-> den]

\* EmbeddingService.embed_batch(texts) on a service whose _model slot is
\* model: _load_model constructs the model when the slot is None and marks
\* the slot False and raises when the construction fails; then
\* _model.encode(texts), which raises AttributeError on False and may raise
\* on a loaded model.
EmbedBatch(model, loads, encodes) ==
  IF model = "None" /\ ~loads THEN [model |-> "False", raised |-> TRUE]
  ELSE IF model = "False" THEN [model |-> "False", raised |-> TRUE]
  ELSE [model |-> "loaded", raised |-> ~encodes]

\* The except clause of score: semantic matching is switched off and the
\* exact score is returned.  service_raised says whether the exception came
\* from the embedding service.
Excepted(exact_score, model, embed_batch_calls, service_raised) ==
  [ret |-> exact_score, use_semantic |-> FALSE, model |-> model,
   embed_batch_calls |-> embed_batch_calls, service_raised |-> service_raised]

\* The try block of score after both embed_batch calls returned: max() over
\* the user embeddings raises ValueError when there is none.
Compared(exact_score, user_set, model, emb) ==
  IF user_set = {} THEN Excepted(exact_score, model, 2, FALSE)
  ELSE [ret |-> FinalScore(exact_score, emb.similarity), use_semantic |-> TRUE,
        model |-> model, embed_batch_calls |-> 2, service_raised |-> FALSE]

\* The try block of score after the user skills were embedded.
JobsEmbedded(exact_score, user_set, second, emb) ==
  IF second.raised THEN Excepted(exact_score, second.model, 2, TRUE)
  ELSE Compared(exact_score, user_set, second.model, emb)

\* The try block of score: the user skills are embedded, then the unmatched
\* job skills.
UsersEmbedded(exact_score, user_set, first, emb) ==
  IF first.raised THEN Excepted(exact_score, first.model, 1, TRUE)
  ELSE JobsEmbedded(exact_score, user_set, EmbedBatch(first.model, emb.loads, emb.encodes_jobs), emb)

\* score when the embedding service is not called.
WithoutService(ret, semantic, model) ==
  [ret |-> ret, use_semantic |-> semantic, model |-> model,
   embed_batch_calls |-> 0, service_raised |-> FALSE]

\* score after the sets were built.
ScoreOfSets(semantic, model, user_set, job_set, exact_score, emb) ==
  IF ReturnsExact(exact_score, semantic) THEN WithoutService(exact_score, semantic, model)
  ELSE IF job_set \ user_set = {} THEN WithoutService(exact_score, semantic, model)
  ELSE UsersEmbedded(exact_score, user_set, EmbedBatch(model, emb.loads, emb.encodes_users), emb)

\* SkillScorer.score(user_skills, job_skills) on a scorer whose use_semantic
\* is semantic, with an embedding service whose slot is model and that
\* behaves as emb says: the score returned, use_semantic and the slot after
\* the call, and the number of embed_batch calls made.
SkillScore(semantic, model, user_skills, job_skills, emb) ==
  IF job_skills = <<>> THEN WithoutService(One, semantic, model)
  ELSE ScoreOfSets(semantic, model, LowerSet(user_skills), LowerSet(job_skills),
                   ExactScore(LowerSet(user_skills), LowerSet(job_skills)), emb)

\* --- inputs ------------------------------------------------------------

UserSkillLists == {<<>>, <<"Python">>, <<"python", "SQL">>, <<"Java", "excel">>}

JobSkillLists == {<<>>, <<"python">>, <<"Python", "SQL", "Excel">>, <<"sql", "SQL">>}

\* What the embedding service does during a call: whether the model can be
\* constructed, whether encode returns for the user skills and for the job
\* skills, and the mean of the best similarities in hundredths.
EmbeddingOutcomes ==
  {[loads |-> l, encodes_users |-> u, encodes_jobs |-> j, similarity |-> s] :
     l \in BOOLEAN, u \in BOOLEAN, j \in BOOLEAN, s \in {0, 60, 100}}

\* SkillScorer(embedding_service) in a process in which no embedding was
\* computed yet: __init__ sets use_semantic to True.
InitScorer ==
  /\ synonyms = <<>>
  /\ blacklist = {}
  /\ skills_db = {}
  /\ major_taxonomy = <<>>
  /\ llm_pipe = "None"
  /\ AllBuilt
  /\ embedding_model = "None"
  /\ use_semantic = TRUE
  /\ threads = <<>>
  /\ call = NoCall

\* scorer.score(user_skills, job_skills) as the next call of a sequence of
\* calls on one scorer.  before is use_semantic as the call finds it.
ScoreCall(user_skills, job_skills, emb) ==
  LET n == IF call = NoCall THEN 0 ELSE call.n
  IN  /\ n < MaxCalls
      /\ call' = [op |-> "score", n |-> n + 1, user_skills |-> user_skills,
                  job_skills |-> job_skills, emb |-> emb, before |-> use_semantic,
                  out |-> SkillScore(use_semantic, embedding_model, user_skills, job_skills,
                                    emb)]
      /\ use_semantic' = call'.out.use_semantic
      /\ embedding_model' = call'.out.model
      /\ UNCHANGED <<tables, llm_pipe, threads>>

NextScorer ==
  \E user_skills \in UserSkillLists :
    \E job_skills \in JobSkillLists :
      \E emb \in EmbeddingOutcomes : ScoreCall(user_skills, job_skills, emb)

SpecScorer == InitScorer /\ [][NextScorer]_vars

(***************************************************************************)
(* Construction of the components from the reference files                 *)
(***************************************************************************)

\* The contents of the reference files when they are present.
TechnicalSkillsData == {"Python", "SQL", "C++", "MS Office"}
MajorTaxonomyData == <<"Computer Science", "Accounting">>
BlacklistData == {"Skill", "team player"}
SynonymsData == <<Entry("Microsoft Office", <<"ms office">>)>>

\* The loop that flattens and lowercases the vocabulary, after open() has
\* succeeded.
LoadedSkills == LoadSkillsDb(TechnicalSkillsData)

\* Validator._load_blacklist: the file is opened inside try/except
\* FileNotFoundError; the blacklist stays empty when it is missing.
LoadBlacklist(present) ==
  IF BLACKLIST_FILE \in present THEN {Lower(phrase) : phrase \in BlacklistData} ELSE {}

\* Deduplicator._load_synonyms: try/except FileNotFoundError; the map stays
\* empty when the file is missing.
LoadSynonyms(present) ==
  IF SYNONYMS_FILE \in present THEN SynonymsData ELSE <<>>

\* EnhancedEducationExtractor._load_major_taxonomy: try/except
\* FileNotFoundError; returns [] when the file is missing.
LoadMajorTaxonomy(present) ==
  IF MAJOR_TAXONOMY_FILE \in present
  THEN [n \in 1..Len(MajorTaxonomyData) |-> Lower(MajorTaxonomyData[n])]
  ELSE <<>>

InitConstruct ==
  /\ synonyms = <<>>
  /\ blacklist = {}
  /\ skills_db = {}
  /\ major_taxonomy = <<>>
  /\ llm_pipe = "None"
  /\ ServicesUnused
  /\ files \in SUBSET ReferenceFiles
  /\ built = [c \in Components |-> "none"]
  /\ call = NoCall

\* RegexMatcher(): _load_skills_database opens the vocabulary file outside
\* any try block, so a missing file ends the constructor with
\* FileNotFoundError.
ConstructRegexMatcher ==
  /\ IF TECHNICAL_SKILLS_FILE \in files
     THEN /\ skills_db' = LoadedSkills
          /\ built' = [built EXCEPT !["RegexMatcher"] = "ok"]
     ELSE /\ built' = [built EXCEPT !["RegexMatcher"] = "FileNotFoundError"]
          /\ UNCHANGED skills_db
  /\ UNCHANGED <<synonyms, blacklist, major_taxonomy, files, llm_pipe, call>>
  /\ UNCHANGED services

\* SectionParser(config): opens the vocabulary file outside any try block.
ConstructSectionParser ==
  /\ IF TECHNICAL_SKILLS_FILE \in files
     THEN /\ skills_db' = LoadedSkills
          /\ built' = [built EXCEPT !["SectionParser"] = "ok"]
     ELSE /\ built' = [built EXCEPT !["SectionParser"] = "FileNotFoundError"]
          /\ UNCHANGED skills_db
  /\ UNCHANGED <<synonyms, blacklist, major_taxonomy, files, llm_pipe, call>>
  /\ UNCHANGED services

\* NERExtractor(config): the spaCy model is loaded inside try/except, then
\* the vocabulary file is opened outside any try block.
ConstructNERExtractor ==
  /\ IF TECHNICAL_SKILLS_FILE \in files
     THEN /\ skills_db' = LoadedSkills
          /\ built' = [built EXCEPT !["NERExtractor"] = "ok"]
     ELSE /\ built' = [built EXCEPT !["NERExtractor"] = "FileNotFoundError"]
          /\ UNCHANGED skills_db
  /\ UNCHANGED <<synonyms, blacklist, major_taxonomy, files, llm_pipe, call>>
  /\ UNCHANGED services

\* Validator(config)
ConstructValidator ==
  /\ blacklist' = LoadBlacklist(files)
  /\ built' = [built EXCEPT !["Validator"] = "ok"]
  /\ UNCHANGED <<synonyms, skills_db, major_taxonomy, files, llm_pipe, call>>
  /\ UNCHANGED services

\* Deduplicator()
ConstructDeduplicator ==
  /\ synonyms' = LoadSynonyms(files)
  /\ built' = [built EXCEPT !["Deduplicator"] = "ok"]
  /\ UNCHANGED <<blacklist, skills_db, major_taxonomy, files, llm_pipe, call>>
  /\ UNCHANGED services

\* EnhancedEducationExtractor(config)
ConstructEducationExtractor ==
  /\ major_taxonomy' = LoadMajorTaxonomy(files)
  /\ llm_pipe' = "None"
  /\ built' = [built EXCEPT !["EnhancedEducationExtractor"] = "ok"]
  /\ UNCHANGED <<synonyms, blacklist, skills_db, files, call>>
  /\ UNCHANGED services

\* EnhancedSkillsExtractor(config): opens the vocabulary file outside any
\* try block before it constructs anything; then the four strategies and
\* the three post-processing modules, in this order.  keybert_loads says
\* whether KeyBERT(model=KEYBERT_MODEL), which is not guarded either, returns.
ConstructSkillsExtractor(keybert_loads) ==
  /\ IF TECHNICAL_SKILLS_FILE \notin files
     THEN /\ built' = [built EXCEPT !["EnhancedSkillsExtractor"] = "FileNotFoundError"]
          /\ UNCHANGED <<synonyms, blacklist, skills_db>>
     ELSE IF ~keybert_loads
     THEN /\ skills_db' = LoadedSkills
          /\ built' = [built EXCEPT !["RegexMatcher"] = "ok", !["SectionParser"] = "ok",
                                    !["KeyBERTExtractor"] = "ModelLoadError",
                                    !["EnhancedSkillsExtractor"] = "ModelLoadError"]
          /\ UNCHANGED <<synonyms, blacklist>>
     ELSE /\ skills_db' = LoadedSkills
          /\ synonyms' = LoadSynonyms(files)
          /\ blacklist' = LoadBlacklist(files)
          /\ built' = [c \in Components |->
                         IF c = "EnhancedEducationExtractor" THEN built[c] ELSE "ok"]
  /\ UNCHANGED <<major_taxonomy, files, llm_pipe, call>>
  /\ UNCHANGED services

\* regex_matcher.extract(text) on a matcher that was constructed.
MatchAfterConstruct(text) ==
  /\ built["RegexMatcher"] = "ok"
  /\ call' = [op |-> "regex_extract", text |-> text, ret |-> RegexExtract(skills_db, text)]
  /\ UNCHANGED engine

NextConstruct ==
  \/ ConstructRegexMatcher
  \/ ConstructSectionParser
  \/ ConstructNERExtractor
  \/ ConstructValidator
  \/ ConstructDeduplicator
  \/ ConstructEducationExtractor
  \/ \E keybert_loads \in BOOLEAN : ConstructSkillsExtractor(keybert_loads)
  \/ \E text \in {"We use SQL, C++ and MS Office"} : MatchAfterConstruct(text)

SpecConstruct == InitConstruct /\ [][NextConstruct]_vars

(***************************************************************************)
(* Properties of the Deduplicator                                          *)
(***************************************************************************)

\* The skills of the last deduplicate call after pass 1 (lowercased set).
CallLowered == {Lower(call.skills[i]) : i \in 1..Len(call.skills)}

\* C1: deduplicate is idempotent: a call on the list a previous call returned
\* returns that list unchanged, for every synonym map.
C1_Idempotent ==
  (call.op = "deduplicate" /\ call.again) => call.ret = call.skills

\* C3 as stated: after deduplicate no retained entry has a word set that is a
\* strict subset of the word set of another retained entry.
C3_NoWordSubsetRetained ==
  call.op = "deduplicate" =>
    \A s, l \in Range(call.ret) :
      ~(WordSet(s) \subseteq WordSet(l) /\ WordSet(s) # WordSet(l))

\* C3 amended: a skill is dropped exactly when it is a raw substring of
\* another skill of the merged list all of whose words it shares (raw
\* substring test and word-set test together), so no retained entry is such a
\* substring of another retained entry; the longer skill is the one kept,
\* and ["python", "python programming"] yields ["python programming"].
C3_SubstringAndWordSubsetDropped ==
  call.op = "deduplicate" =>
    LET merged == MergeSynonyms(synonyms, CallLowered)
        kept == Range(call.ret)
    IN  /\ kept = {s \in merged :
                     ~\E l \in merged :
                        l # s /\ Contains(l, s) /\ WordSet(s) \subseteq WordSet(l)}
        /\ \A s, l \in kept :
             ~(l # s /\ Contains(l, s) /\ WordSet(s) \subseteq WordSet(l))
        /\ \A s \in merged \ kept :
             \E l \in kept : Len(l) > Len(s) /\ Contains(l, s)
        /\ (call.skills = <<"python", "python programming">>
              => call.ret = <<"python programming">>)

\* Witness of C3: of two skills, the one that is a substring and a
\* word-subset of the other was dropped.
C3_Witness ==
  /\ call.op = "deduplicate"
  /\ call.skills = <<"python", "python programming">>
  /\ call.ret = <<"python programming">>

\* C4: for every main term m with alternate a, deduplicate([a, m]) is exactly
\* [lowercase m], and no output holds two synonym-equivalent entries.
C4_SynonymsCollapse ==
  call.op = "deduplicate" =>
    /\ \A i \in 1..Len(synonyms) :
         call.skills = <<synonyms[i].alts[1], synonyms[i].main>>
           => call.ret = <<Lower(synonyms[i].main)>>
    /\ \A s, t \in Range(call.ret) :
         (s # t) => ~\E i \in 1..Len(synonyms) :
                       EntryMatches(synonyms[i], s) /\ EntryMatches(synonyms[i], t)

\* C5: deduplicating ["sales", "sales manager"] yields both entries.
C5_SalesKept ==
  (call.op = "deduplicate" /\ call.skills = <<"sales", "sales manager">>)
    => call.ret = <<"sales", "sales manager">>

(***************************************************************************)
(* Properties of the Validator                                             *)
(***************************************************************************)

\* The rejection predicates of the Validator as the specification lists
\* them, over the lowercased, trimmed skill t: the set of those that hold.
Rejections(bl, t) ==
  LET words == Len(Split(t))
  IN  {r \in {"length", "blacklist", "blacklist phrase", "numeric", "email", "filler",
              "punctuation", "address", "location", "job role", "single word",
              "double space", "words", "and", "generic"} :
         \/ r = "length" /\ (Len(t) < MIN_SKILL_LENGTH \/ Len(t) > MAX_SKILL_LENGTH)
         \/ r = "blacklist" /\ t \in bl
         \/ r = "blacklist phrase" /\ \E b \in bl : Len(b) > 5 /\ Contains(t, b)
         \/ r = "numeric" /\ t # "" /\ \A i \in 1..Len(t) : IsDigit(Ch(t, i))
         \/ r = "email" /\ \E m \in {"@", ".com", ".net"} : Contains(t, m)
         \/ r = "filler" /\ \E f \in {"and ", "or ", "the ", "a ", "an "} : StartsWith(t, f)
         \/ r = "punctuation" /\ t # "" /\ Ch(t, Len(t)) \in {".", "!", "?", ","}
         \/ r = "address" /\ (Contains(t, "no.") \/ Contains(t, "no "))
         \/ r = "location" /\ \E w \in location_words : Contains(t, w)
         \/ r = "job role" /\ \E j \in job_role_indicators : EndsWith(t, j)
         \/ r = "single word" /\ t \in single_word_rejects
         \/ r = "double space" /\ Contains(t, "  ")
         \/ r = "words" /\ words > 5
         \/ r = "and" /\ Contains(t, " and ") /\ words > 2
         \/ r = "generic" /\ words = 1 /\ Len(t) < 5 /\ t \in generic_single}

\* C7: _is_valid_skill(s) is false exactly when at least one rejection
\* predicate holds for the lowercased, trimmed s, whatever the order of the
\* checks; "khan sangkat phum", "123" and "excellent." are rejected and
\* "python" is accepted when the blacklist does not cover it.
C7_ValidIffNoRejection ==
  call.op = "is_valid_skill" =>
    /\ call.ret = (Rejections(blacklist, Strip(Lower(call.skill))) = {})
    /\ (call.skill \in {"khan sangkat phum", "123", "excellent."} => ~call.ret)
    /\ (call.skill = "python" /\ (\A b \in blacklist : ~Contains("python", b)) => call.ret)

\* Witness of C7: a skill rejected only by the blacklist-phrase predicate,
\* which the code tests after the length and exact-match checks.
C7_Witness ==
  /\ call.op = "is_valid_skill"
  /\ ~call.ret
  /\ Rejections(blacklist, Strip(Lower(call.skill))) = {"blacklist phrase"}

(***************************************************************************)
(* Properties of the known-term matcher                                    *)
(***************************************************************************)

\* The term occurs in the text as a separate token: it is delimited on each
\* side by the start or end of the text or by a character that is neither a
\* letter nor a digit (whitespace or any punctuation).
OccursAsToken(text_lower, term) ==
  \E i \in 1..(Len(text_lower) - Len(term) + 1) :
    LET j == i + Len(term) - 1
    IN  /\ SubSeq(text_lower, i, j) = term
        /\ (i = 1 \/ ~IsAlnum(Ch(text_lower, i - 1)))
        /\ (j = Len(text_lower) \/ ~IsAlnum(Ch(text_lower, j + 1)))

IsSortedNoDup(q) == \A i \in 1..(Len(q) - 1) : StrLess(q[i], q[i + 1])

\* C8: RegexMatcher.extract returns, sorted and without duplicates, every
\* vocabulary term that occurs in the lowercased text as a separate token,
\* whatever punctuation surrounds it, and nothing outside the vocabulary.
C8_EveryTokenMatched ==
  call.op = "regex_extract" =>
    /\ IsSortedNoDup(call.ret)
    /\ Range(call.ret) \subseteq skills_db
    /\ \A term \in skills_db :
         OccursAsToken(Lower(call.text), term) => term \in Range(call.ret)

(***************************************************************************)
(* Properties of EnhancedSkillsExtractor.extract                           *)
(***************************************************************************)

\* C2: every entry of the list extract returns, after the Normalizer, the
\* Validator and the Deduplicator have run, is not a blacklisted phrase and
\* has between MIN_SKILL_LENGTH and MAX_SKILL_LENGTH characters, whatever
\* the vocabulary, the blacklist and the synonym map are.
C2_ResultNotBlacklistedAndInRange ==
  call.op = "extract" =>
    \A n \in 1..Len(call.ret) :
      /\ call.ret[n] \notin blacklist
      /\ Len(call.ret[n]) >= MIN_SKILL_LENGTH
      /\ Len(call.ret[n]) <= MAX_SKILL_LENGTH

\* C6: the list extract returns is in ascending order without a repeated
\* string, holds only lowercase strings, and holds nothing but strings (no
\* score, no strategy name attached).
C6_SortedUniqueLowercase ==
  call.op = "extract" =>
    /\ IsSortedNoDup(call.ret)
    /\ \A n \in 1..Len(call.ret) : call.ret[n] \in STRING /\ IsLowerStr(call.ret[n])

\* A call on a text with capitals that returned several skills, one of them
\* the main term of a synonym entry written with capitals in the file.
C6_Witness ==
  /\ call.op = "extract"
  /\ ~IsLowerStr(call.text)
  /\ Len(call.ret) >= 2
  /\ \E e \in 1..Len(synonyms) :
       /\ ~IsLowerStr(synonyms[e].main)
       /\ Lower(synonyms[e].main) \in Range(call.ret)

\* The result of post-processing what the Known-Term Matcher, the
\* Structured-Section Parser, the Direct Scanner and the Soft-Skill Matcher
\* returned in the recorded call.
FusionOfFour ==
  PostProcess(synonyms, blacklist,
              AggregateResults([call.results EXCEPT !.keybert = <<>>, !.ner = <<>>]))

\* C10: when the keyphrase capability fails and the NER capability is
\* unavailable or fails during a call, extract returns the post-processed
\* fusion of the four other strategies, and the result is not empty when the
\* text contains, as a token, a vocabulary term that passes validation.
C10_DegradedStillFindsVocabulary ==
  (call.op = "extract" /\ call.keybert = "fail" /\ call.ner \in {"unavailable", "fail"}) =>
    /\ call.ret = (IF call.text = "" THEN <<>> ELSE FusionOfFour)
    /\ (\E term \in skills_db :
          OccursAsToken(Lower(call.text), term) /\ IsValidSkill(blacklist, term))
         => call.ret # <<>>

(***************************************************************************)
(* Properties of the construction                                          *)
(***************************************************************************)

\* C9: a missing reference file never ends the construction of a component
\* with an error; the component is constructed and the table it loads from
\* the missing file is empty.
C9_MissingFileNeverAborts ==
  /\ \A c \in Components : built[c] # "FileNotFoundError"
  /\ (TECHNICAL_SKILLS_FILE \notin files /\ built["RegexMatcher"] # "none") => skills_db = {}
  /\ (BLACKLIST_FILE \notin files /\ built["Validator"] # "none") => blacklist = {}
  /\ (SYNONYMS_FILE \notin files /\ built["Deduplicator"] # "none") => synonyms = <<>>
  /\ (MAJOR_TAXONOMY_FILE \notin files /\ built["EnhancedEducationExtractor"] # "none")
       => major_taxonomy = <<>>
(***************************************************************************)
(* Properties of EnhancedEducationExtractor.extract                        *)
(***************************************************************************)

\* The last call was education_extractor.extract on a non-empty text.
EducationCall == call.op = "education_extract" /\ call.text # ""

\* The language model was asked for and was unavailable: it could not be
\* loaded, or its first prompt raised.
LlmUnavailable ==
  /\ call.out.fallback.called
  /\ \/ call.pipe = "None" /\ call.llm.load = "fail"
     \/ call.llm.level.status = "raise"

\* C11: for every non-empty text and every outcome of the language model
\* (the load fails, the level prompt raises, the major prompt raises, both
\* prompts are answered) extract returns a level and a major; when the
\* model is unavailable they are what the primary methods produced: the
\* level of the cascade, and the cleaned and validated major of the
\* candidates.  When only the major prompt raises, nothing of the model
\* enters the major.
C11_FallbackFailureKeepsPrimary ==
  EducationCall =>
    /\ DOMAIN call.out = {"level", "major", "primary_level", "primary_major", "fallback"}
    /\ LlmUnavailable =>
         /\ call.out.level = call.out.primary_level
         /\ call.out.major =
              ValidateMajor(major_taxonomy, CleanMajor(call.out.primary_major))
    /\ call.llm.major.status = "raise" =>
         call.out.major = ValidateMajor(major_taxonomy, CleanMajor(call.out.primary_major))

\* C11 witness: the cascade found no level, the fallback was called and the
\* model could not be loaded; the call returned without a level.
C11_Witness ==
  /\ EducationCall
  /\ call.out.primary_level = ""
  /\ call.pipe = "None"
  /\ call.llm.load = "fail"
  /\ call.out.fallback.called
  /\ call.out.level = ""
  /\ llm_pipe = "None"

\* The five labels of the fixed hierarchy of levels.
LevelLabels == {"high school", "associate", "bachelor's degree", "master's degree", "phd"}

\* C15: for every text and every free-text answer of the language model the
\* level extract returns is empty or one of the five labels.
C15_LevelIsALabel ==
  call.op = "education_extract" => call.out.level \in LevelLabels \cup {""}

\* C15 witness: the cascade found no level and the model answered with a
\* free text, which was parsed into a label.
C15_Witness ==
  /\ EducationCall
  /\ call.out.primary_level = ""
  /\ call.out.fallback.prompts # <<>>
  /\ call.llm.level = Answer("Somewhat basic")
  /\ call.out.level = "bachelor's degree"

\* C16: the language model is not invoked (not loaded, not prompted) when
\* the primary methods resolved both the level and the major, and a level
\* or a major resolved by a primary method is never replaced by the answer
\* of the model.
C16_FallbackOnlyFillsGaps ==
  EducationCall =>
    /\ call.out.primary_level # "" /\ call.out.primary_major # "" =>
         /\ ~call.out.fallback.called
         /\ call.out.fallback.prompts = <<>>
         /\ llm_pipe = call.pipe
    /\ call.out.primary_level # "" => call.out.level = call.out.primary_level
    /\ call.out.primary_major # "" =>
         call.out.major = ValidateMajor(major_taxonomy, CleanMajor(call.out.primary_major))

\* C16 witness: both were resolved while a model that could be loaded would
\* have answered otherwise; the model was left unloaded.
C16_Witness ==
  /\ EducationCall
  /\ call.out.primary_level = "bachelor's degree"
  /\ call.out.primary_major = "computer science"
  /\ call.pipe = "None"
  /\ call.llm = [load |-> "ok", level |-> Answer("PhD"),
                 major |-> Answer("accounting or related field")]
  /\ llm_pipe = "None"
  /\ Education(call.out) = [level |-> "bachelor's degree", major |-> "computer science"]

\* The patterns of the cascade that re.search finds in the text.
LevelHits(text) ==
  {n \in 1..Len(EDUCATION_LEVEL_PATTERNS) : Search(EDUCATION_LEVEL_PATTERNS[n].pattern, text)}

\* C17: _extract_level_enhanced tries its stages in order: the level
\* patterns in the order of their declaration, then the inference on the
\* word "degree", then the implicit bachelor; the first pattern or stage
\* that applies gives the level and no later one changes it.  "Bachelor's
\* degree in Computer Science required" gives "bachelor's degree".
C17_StagesInOrder ==
  EducationCall =>
    /\ LevelHits(Lower(call.text)) # {} =>
         call.out.primary_level =
           EDUCATION_LEVEL_PATTERNS[Nth(LevelHits(Lower(call.text)), 1)].level
    /\ LevelHits(Lower(call.text)) = {} /\ ContextLevel(Lower(call.text)) # "" =>
         call.out.primary_level = ContextLevel(Lower(call.text))
    /\ LevelHits(Lower(call.text)) = {} /\ ContextLevel(Lower(call.text)) = "" =>
         call.out.primary_level = ImplicitLevel(Lower(call.text))
    /\ call.text = "Bachelor's degree in Computer Science required" =>
         call.out.primary_level = "bachelor's degree"

\* C17 witness: a text on which a pattern gives "associate" and the
\* implicit heuristic, tried later, would give "bachelor's degree".
C17_Witness ==
  /\ EducationCall
  /\ LevelHits(Lower(call.text)) # {}
  /\ ImplicitLevel(Lower(call.text)) = "bachelor's degree"
  /\ call.out.primary_level = "associate"

\* C18: the language model is prompted for a major only when the primary
\* methods produced no major and the level extraction failed too; when the
\* cascade resolved the level no major prompt is sent.
C18_MajorPromptOnlyWhenLevelFailed ==
  EducationCall =>
    ("major" \in Range(call.out.fallback.prompts) =>
       call.out.primary_major = "" /\ call.out.primary_level = "")

\* The scores of the candidates as they were generated, each with the
\* score of its own source.
Generated(taxonomy, candidates) ==
  [n \in 1..Len(candidates) |->
     [major |-> candidates[n].major, score |-> Score(taxonomy, candidates[n])]]

\* C19: _extract_major_enhanced returns the candidate of the highest score
\* (10 for a candidate from the taxonomy, 8 from a regular expression, 6
\* from the specialization indicator, 5 otherwise, and 5 more for a member
\* of the taxonomy); among candidates of equal score the one generated
\* first; no major when no candidate was generated.
C19_HighestScoreFirstGenerated ==
  EducationCall =>
    call.out.primary_major =
      Best(Generated(major_taxonomy, Candidates(major_taxonomy, Lower(call.text))))

\* The candidate that extract validates: the winner of the primary
\* methods, or the major of the fallback when there is none.
Winner == IF call.out.primary_major # "" THEN call.out.primary_major ELSE call.out.fallback.major

\* C20: the major extract returns is the winning candidate validated in
\* this order: a member of the taxonomy as it is; else the first entry of
\* the taxonomy longer than three characters that is in the candidate or
\* contains it; else the field of the first keyword of the table found in
\* it; else the candidate unchanged.  A winning candidate that is a member
\* of the taxonomy is returned unchanged.
C20_WinnerValidatedInOrder ==
  EducationCall =>
    /\ call.out.major = ValidateMajor(major_taxonomy, Winner)
    /\ Winner \in Range(major_taxonomy) => call.out.major = Winner

(***************************************************************************)
(* Properties of the batch and diagnostic entry points                     *)
(***************************************************************************)

\* C12: the skills batch function returns a list as long as the list of
\* texts whose n-th element is what extract returns on the n-th text, and
\* the education batch function does the same with the education extract
\* made on the extractor as the batch found it.
C12_BatchIsElementwise ==
  /\ call.op = "extract_batch" =>
       /\ Len(call.ret) = Len(call.items)
       /\ \A n \in 1..Len(call.items) :
            call.ret[n] = ExtractSkills(skills_db, synonyms, blacklist, call.items[n].text,
                                        call.items[n].kb, call.items[n].ner)
  /\ call.op = "education_extract_batch" =>
       /\ Len(call.outs) = Len(call.items)
       /\ \A n \in 1..Len(call.items) :
            Education(call.outs[n]) =
              Education(EducationExtract(major_taxonomy, call.pipe, call.items[n].text,
                                         LlmOf(call.items[n], call.load)))

\* C12 witness: a batch of an empty text and a text with skills: the first
\* element is the empty list, the second is not.
C12_Witness ==
  /\ call.op = "extract_batch"
  /\ Len(call.items) = 2
  /\ call.items[1].text = ""
  /\ call.ret[1] = <<>>
  /\ call.ret[2] # <<>>

\* C13: for every list of texts and every behaviour of the NER pipeline, a
\* failure on one text only included, the n-th list of
\* NERExtractor.extract_batch is what NERExtractor.extract returns on the
\* n-th text.
C13_NerBatchIsElementwise ==
  call.op = "ner_extract_batch" =>
    /\ Len(call.ret) = Len(call.items)
    /\ \A n \in 1..Len(call.items) :
         call.ret[n] = NERExtract(skills_db, call.items[n].text, NEROf(call.items[n], call.nlp))

\* C14: on an empty or null text every public entry point (skills extract,
\* education extract, the two batch functions on such an element,
\* get_extraction_stats) returns an empty result, raises nothing and invokes
\* no external capability.  extract and the batch functions test `not
\* text`, which None and "" satisfy alike: there the text "" stands for both.
C14_EmptyTextIsNeutral ==
  /\ call.op = "extract" /\ call.text = "" => call.ret = <<>> /\ call.invoked = {}
  /\ call.op = "education_extract" /\ call.text = "" =>
       /\ Education(call.out) = [level |-> "", major |-> ""]
       /\ ~call.out.fallback.called
  /\ call.op = "extract_batch" =>
       /\ \A n \in 1..Len(call.items) : call.items[n].text = "" => call.ret[n] = <<>>
       /\ (\A n \in 1..Len(call.items) : call.items[n].text = "") => call.invoked = {}
  /\ call.op = "education_extract_batch" =>
       \A n \in 1..Len(call.items) :
         call.items[n].text = "" =>
           /\ Education(call.outs[n]) = [level |-> "", major |-> ""]
           /\ ~call.outs[n].fallback.called
  /\ call.op = "get_extraction_stats" /\ call.text = "" =>
       /\ call.raised = ""
       /\ call.invoked = {}
       /\ call.ret.final_skills = <<>>

(***************************************************************************)
(* Properties of EnhancedSkillsExtractor._aggregate_results                *)
(***************************************************************************)

\* The lowercased strings the strategy st of `results` proposed.
Proposed(results, st) == {Lower(results[st][n]) : n \in 1..Len(results[st])}

\* The sum of the trust weights of the strategies that proposed skill_lower.
TrustSum(results, skill_lower) ==
  (IF skill_lower \in Proposed(results, "regex") THEN 12 ELSE 0)
    + (IF skill_lower \in Proposed(results, "direct_scan") THEN 11 ELSE 0)
    + (IF skill_lower \in Proposed(results, "section") THEN 9 ELSE 0)
    + (IF skill_lower \in Proposed(results, "keybert") THEN 6 ELSE 0)
    + (IF skill_lower \in Proposed(results, "ner") THEN 5 ELSE 0)
    + (IF skill_lower \in Proposed(results, "soft_skills") THEN 4 ELSE 0)

\* C21: the keys of skill_scores are the lowercased strings proposed by at
\* least one of the six strategies and nothing else; the score of a key is the
\* sum of the trust weights (12, 11, 9, 6, 5, 4) of the strategies that
\* proposed it; and the result of the call is the post-processing of that set
\* of strings, which no weight enters.
C21_ScoreIsSumOfTrustWeights ==
  (call.op = "extract" /\ call.text # "") =>
    LET proposed == UNION {Proposed(call.results, st) : st \in DOMAIN call.results}
    IN  /\ DOMAIN call.skill_scores = proposed
        /\ \A skill_lower \in proposed :
             call.skill_scores[skill_lower] = TrustSum(call.results, skill_lower)
        /\ call.ret = PostProcess(synonyms, blacklist, proposed)

\* C21 witness: a call in which one string was proposed by the known-term
\* strategy, the direct scan and the keyphrase strategy, and another string
\* by the first two only.
C21_Witness ==
  /\ call.op = "extract"
  /\ \E a, b \in DOMAIN call.skill_scores :
       /\ call.skill_scores[a] = 12 + 11 + 6
       /\ call.skill_scores[b] = 12 + 11
  /\ C21_ScoreIsSumOfTrustWeights

(***************************************************************************)
(* Properties of sequences of extract calls on one skills extractor        *)
(***************************************************************************)

\* C22: in a call made after a call in which the keyphrase model raised, the
\* keyphrase strategy contributes nothing and the model is not invoked.
C22_KeyBERTLatchedAfterFailure ==
  (call.op = "extract" /\ call.failed_before) =>
    /\ "keybert" \notin call.invoked
    /\ call.results.keybert = <<>>

RECURSIVE SumOver(_, _, _)
\* The sum over the first n threads of the counter field for capability cap.
SumOver(field, cap, n) ==
  IF n = 0 THEN 0
  ELSE SumOver(field, cap, n - 1)
         + (IF field = "inits" THEN threads[n].inits[cap] ELSE threads[n].attempts[cap])

\* C23: whatever the interleaving of the threads that use a capability, the
\* capability is initialized at most once, and a thread holds an answer of
\* the capability only when it was initialized exactly once.
C23_InitializedExactlyOnce ==
  \A cap \in Capabilities :
    /\ SumOver("inits", cap, Len(threads)) <= 1
    /\ \A t \in DOMAIN threads :
         (threads[t].cap = cap /\ threads[t].result = "answered") =>
           SumOver("inits", cap, Len(threads)) = 1

(***************************************************************************)
(* Properties of sequences of extract calls on one education extractor     *)
(***************************************************************************)

\* C24: the language model is not loaded before the first call in which the
\* primary methods leave the level or the major unresolved, and a call that
\* finds the model loaded leaves it loaded: the cached model is used, it is
\* not loaded again.
C24_LoadedOnFirstNeedAndKept ==
  /\ call = NoCall => llm_pipe = "None"
  /\ call.op = "education_extract" =>
       /\ llm_pipe = "loaded" => call.unresolved
       /\ call.pipe = "loaded" => llm_pipe = "loaded"
       /\ (call.pipe = "loaded" /\ call.out.fallback.called) =>
            call.out.fallback.prompts # <<>>

\* C24 witness: a call made after the model was loaded needs the fallback
\* while a new load would fail, and is answered by the cached model.
C24_Witness ==
  /\ call.op = "education_extract"
  /\ call.n >= 2
  /\ call.pipe = "loaded"
  /\ call.llm.load = "fail"
  /\ call.out.fallback.called
  /\ call.out.fallback.prompts = <<"level", "major">>
  /\ call.out.level = "phd"
  /\ C24_LoadedOnFirstNeedAndKept

\* C30: over all the embed and embed_batch calls of the process the load of
\* the model is attempted at most once; a call that finds the slot marked
\* failed raises; and a call that finds the model loaded returns an
\* embedding.
C30_LoadAttemptedAtMostOnce ==
  /\ SumOver("attempts", "embedding", Len(threads)) <= 1
  /\ \A t \in DOMAIN threads :
       (threads[t].cap = "embedding" /\ threads[t].pc = "idle") =>
         /\ threads[t].began = "False" => threads[t].result = "raised"
         /\ threads[t].began = "loaded" => threads[t].result = "answered"

(***************************************************************************)
(* Properties of the Normalizer                                            *)
(***************************************************************************)

\* C26: the list normalize returns is sorted without duplicates; every entry
\* is lowercase, at least 2 characters long, without leading or trailing
\* whitespace and without two whitespace characters in a row, and made of
\* alphanumeric characters, spaces, hyphen, slash, period, plus, hash and
\* ampersand only; an input that cleans to fewer than 2 characters
\* contributes nothing.
C26_NormalizedEntriesAreClean ==
  call.op = "normalize" =>
    /\ \A i, j \in 1..Len(call.ret) : i < j => StrLess(call.ret[i], call.ret[j])
    /\ \A n \in 1..Len(call.ret) :
         LET entry == call.ret[n]
         IN  /\ IsLowerStr(entry)
             /\ Len(entry) >= 2
             /\ ~IsSpace(Ch(entry, 1))
             /\ ~IsSpace(Ch(entry, Len(entry)))
             /\ \A i \in 1..(Len(entry) - 1) :
                  ~(IsSpace(Ch(entry, i)) /\ IsSpace(Ch(entry, i + 1)))
             /\ \A i \in 1..Len(entry) :
                  \/ IsAlnum(Ch(entry, i))
                  \/ Ch(entry, i) \in {" ", "-", "/", ".", "+", "#", "&"}
    /\ Len(call.ret) <= Cardinality({sk \in call.skills : Len(NormalizeText(CleanSkill(sk))) >= 2})

(***************************************************************************)
(* Properties of SkillScorer.score                                         *)
(***************************************************************************)

\* C27: a score call that finds use_semantic False leaves it False, makes no
\* call to the embedding service and returns the share of the lowercased job
\* skills that are among the lowercased user skills, or 1 when there is no
\* job skill.
C27_DisabledStaysDisabledAndExact ==
  (call.op = "score" /\ ~call.before) =>
    /\ ~use_semantic
    /\ call.out.embed_batch_calls = 0
    /\ call.out.ret =
         IF call.job_skills = <<>> THEN [num |-> 1, den |-> 1]
         ELSE [num |-> Cardinality(LowerSet(call.user_skills) \cap LowerSet(call.job_skills)),
               den |-> Cardinality(LowerSet(call.job_skills))]

\* C27 witness: a call that finds use_semantic False, has unmatched job
\* skills and an exact score under 0.7, is made while the embedding service
\* would answer.
C27_Witness ==
  /\ call.op = "score"
  /\ ~call.before
  /\ call.user_skills = <<"Python">>
  /\ call.job_skills = <<"Python", "SQL", "Excel">>
  /\ call.emb.loads /\ call.emb.encodes_users /\ call.emb.encodes_jobs
  /\ embedding_model = "loaded"
  /\ call.out.ret = [num |-> 1, den |-> 3]
  /\ C27_DisabledStaysDisabledAndExact

\* C28: a score call in which no call to the embedding service raised leaves
\* use_semantic as it found it.
C28_OnlyServiceFailureDisables ==
  (call.op = "score" /\ ~call.out.service_raised) => use_semantic = call.before

(***************************************************************************)
(* Properties of the ranking of _extract_major_enhanced                    *)
(***************************************************************************)

\* The position at which the major was generated first.
FirstGenerated(candidates, major) ==
  CHOOSE n \in 1..Len(candidates) :
    /\ candidates[n].major = major
    /\ \A m \in 1..(n - 1) : candidates[m].major # major

====
